---- MODULE Spec2Model ----
(***************************************************************************)
(* Model of rbxts-class-validator: the metadata-driven pipeline engine     *)
(* (validate, parseInto, WithFrom.from) together with the coercers, rules, *)
(* transforms and schema combinators that the engine runs per field.       *)
(*                                                                         *)
(* Luau values are tagged records.  A Luau table (an entity instance, a    *)
(* plain bag, a staging area) is a function whose domain is the set of     *)
(* keys that hold a non-nil value: writing nil removes the key, reading a  *)
(* missing key yields nil, and pairs() enumerates exactly the domain.      *)
(***************************************************************************)
EXTENDS Integers, Sequences, FiniteSets, TLC

(***************************************************************************)
(* Values.                                                                 *)
(***************************************************************************)
Nil == [t |-> "nil"]
Num(n) == [t |-> "num", n |-> n]
Str(s) == [t |-> "str", s |-> s]
Bool(b) == [t |-> "bool", b |-> b]
Tab(f) == [t |-> "tab", f |-> f]

EmptyTable == <<>>

\* primitives.ts isNil: v === undefined
isNil(v) == v = Nil

\* typeIs(v, name)
typeIs(v, name) == v.t = name

\* t[k] on a Luau table: nil when the key is missing
Get(o, k) == IF k \in DOMAIN o THEN o[k] ELSE Nil

\* t[k] = v on a Luau table: assigning nil removes the key
Put(o, k, v) ==
  IF isNil(v)
    THEN [x \in (DOMAIN o) \ {k} |-> o[x]]
    ELSE [x \in (DOMAIN o) \cup {k} |-> IF x = k THEN v ELSE o[x]]

(***************************************************************************)
(* Strings are sequences of one-character strings, so that trimming, case  *)
(* conversion, tostring and tonumber are computed, not assumed.            *)
(***************************************************************************)
Digits == <<"0", "1", "2", "3", "4", "5", "6", "7", "8", "9">>

Lowers == <<"a", "b", "c", "d", "e", "f", "g", "h", "i", "j", "k", "l", "m",
            "n", "o", "p", "q", "r", "s", "t", "u", "v", "w", "x", "y", "z">>

Uppers == <<"A", "B", "C", "D", "E", "F", "G", "H", "I", "J", "K", "L", "M",
            "N", "O", "P", "Q", "R", "S", "T", "U", "V", "W", "X", "Y", "Z">>

IsDigit(c) == \E i \in 1..Len(Digits) : Digits[i] = c

DigitVal(c) == (CHOOSE i \in 1..Len(Digits) : Digits[i] = c) - 1

LowerChar(c) == IF \E i \in 1..Len(Uppers) : Uppers[i] = c
                  THEN Lowers[CHOOSE i \in 1..Len(Uppers) : Uppers[i] = c]
                  ELSE c

UpperChar(c) == IF \E i \in 1..Len(Lowers) : Lowers[i] = c
                  THEN Uppers[CHOOSE i \in 1..Len(Lowers) : Lowers[i] = c]
                  ELSE c

\* string.lower / string.upper
lower(s) == [i \in 1..Len(s) |-> LowerChar(s[i])]

upper(s) == [i \in 1..Len(s) |-> UpperChar(s[i])]

\* s.gsub("^%s+", "")
RECURSIVE TrimLeft(_)
TrimLeft(s) == IF s # <<>> /\ Head(s) = " " THEN TrimLeft(Tail(s)) ELSE s

\* s.gsub("%s+$", "")
RECURSIVE TrimRight(_)
TrimRight(s) ==
  IF s # <<>> /\ s[Len(s)] = " " THEN TrimRight(SubSeq(s, 1, Len(s) - 1)) ELSE s

\* a trim whose patterns lack the repetition: it drops one space at each end
trim_once(s) ==
  LET l == IF s # <<>> /\ Head(s) = " " THEN Tail(s) ELSE s
  IN IF l # <<>> /\ l[Len(l)] = " " THEN SubSeq(l, 1, Len(l) - 1) ELSE l

trim(s) == TrimRight(TrimLeft(s))

\* tostring(n) for a natural number
RECURSIVE NatToStr(_)
NatToStr(n) ==
  IF n < 10 THEN <<Digits[n + 1]>>
            ELSE Append(NatToStr(n \div 10), Digits[(n % 10) + 1])

\* the value of a string of decimal digits
RECURSIVE DigitsToNat(_)
DigitsToNat(s) ==
  IF s = <<>> THEN 0
              ELSE 10 * DigitsToNat(SubSeq(s, 1, Len(s) - 1)) + DigitVal(s[Len(s)])

\* tostring(v) for a number or a boolean
tostring(v) ==
  IF typeIs(v, "num") THEN NatToStr(v.n)
  ELSE IF v.b THEN <<"t", "r", "u", "e">> ELSE <<"f", "a", "l", "s", "e">>

\* tonumber(s): nil unless the string is a decimal numeral
tonumber(s) ==
  IF s # <<>> /\ \A i \in 1..Len(s) : IsDigit(s[i]) THEN Num(DigitsToNat(s)) ELSE Nil

(***************************************************************************)
(* Messages.  A message is a record: its text, a number that the text      *)
(* interpolates and the fragments that the text joins.                     *)
(***************************************************************************)
Msg(text) == [text |-> text, n |-> 0, parts |-> <<>>]

MsgN(text, n) == [text |-> text, n |-> n, parts |-> <<>>]

MsgJoin(text, parts) == [text |-> text, n |-> 0, parts |-> parts]

\* result of a coercer or of a transform
Ok(v) == [ok |-> TRUE, value |-> v]

Fail(m) == [ok |-> FALSE, message |-> m]

\* result of a rule: undefined, or a message
Pass == [ok |-> TRUE]

(***************************************************************************)
(* Metadata keys (constants.ts is not part of the sources; the optional    *)
(* channel is the one that Coerce.Default reads by its literal name).      *)
(***************************************************************************)
META_OPT_KEY == <<"app:validators", "optional">>

(***************************************************************************)
(* The metadata store.  Decorators run at class-definition time; each one  *)
(* updates the metadata record of one property.                            *)
(***************************************************************************)
NoCoercer == [k |-> "none"]

EmptyMeta ==
  [marker |-> FALSE, coercer |-> NoCoercer, flags |-> {},
   validators |-> <<>>, transforms |-> <<>>]

\* a property that only some foreign decorator gave metadata to: it is
\* listed by Reflect.getProperties but carries no marker
Declared == EmptyMeta

pushValidator(m, fn) == [m EXCEPT !.validators = Append(@, fn), !.marker = TRUE]

pushTransform(m, fn) == [m EXCEPT !.transforms = Append(@, fn), !.marker = TRUE]

setOptional(m) == [m EXCEPT !.flags = @ \cup {META_OPT_KEY}, !.marker = TRUE]

setCoercer(m, fn) == [m EXCEPT !.coercer = fn, !.marker = TRUE]

IsOptional(m) == setOptional(m)

ValidateBy(m, fn) ==
  [pushValidator(m, fn) EXCEPT !.flags = @ \cup {<<"app:validators", fn.k>>}]

(***************************************************************************)
(* Rule, coercer and transform factories: the closure a factory returns is *)
(* the record of its name and of the arguments it captured.                *)
(***************************************************************************)
IsString == [k |-> "IsString", message |-> Msg("must be a string")]

IsNumber == [k |-> "IsNumber", message |-> Msg("must be a number")]

Min(min) == [k |-> "Min", min |-> min, message |-> MsgN("must be >= ", min)]

MinLength(minLength) ==
  [k |-> "MinLength", minLength |-> minLength,
   message |-> MsgN("must have length >= ", minLength)]

Max(max) == [k |-> "Max", max |-> max, message |-> MsgN("must be <= ", max)]

MaxLength(maxLength) ==
  [k |-> "MaxLength", maxLength |-> maxLength,
   message |-> MsgN("must have length <= ", maxLength)]

ExclusiveUnion(schemas) == [k |-> "ExclusiveUnion", schemas |-> schemas]

\* SchemaLike: a predicate function, or a constructor
SchemaFn(fn) == [kind |-> "function", fn |-> fn]

SchemaCtor(name) == [kind |-> "ctor", ctor |-> name]

\* (v) => (typeIs(v, "table") ? undefined : "must be table")
MustBeTable == [k |-> "MustBeTable", message |-> Msg("must be table")]

\* (v) => ((v as Record<string, unknown>).ok === true ? undefined : "ok must be true")
OkMustBeTrue == [k |-> "OkMustBeTrue", message |-> Msg("ok must be true")]

CoerceStringOf == [k |-> "String", message |-> Msg("could not coerce to string")]

CoerceNumberOf == [k |-> "Number", message |-> Msg("could not coerce to number")]

CoerceBooleanOf == [k |-> "Boolean", message |-> Msg("could not coerce to boolean")]

CoerceDefaultOf(valueOrFactory) == [k |-> "Default", valueOrFactory |-> valueOrFactory]

TransformMap(mapper) == [k |-> "Map", mapper |-> mapper]

TransformTrim == [k |-> "Trim", message |-> Msg("must be a string")]

TransformLowercase == [k |-> "Lowercase", message |-> Msg("must be a string")]

TransformUppercase == [k |-> "Uppercase", message |-> Msg("must be a string")]

(***************************************************************************)
(* The classes of the test suites and of the README.  Decorators apply     *)
(* bottom-up, so the factories nest in the order the source lists them.    *)
(***************************************************************************)
\* union.spec.ts PipelineDto
PipelineDto ==
  [props |-> <<"n">>,
   meta |-> [p \in {"n"} |->
     setCoercer(ValidateBy(ValidateBy(pushTransform(EmptyMeta,
       TransformMap("add1000")), Min(10)), IsNumber), CoerceNumberOf)]]

\* with-from.spec.ts UserDto
UserDto ==
  [props |-> <<"hp", "lang", "name">>,
   meta |-> [p \in {"hp", "lang", "name"} |->
     CASE p = "name" -> ValidateBy(pushTransform(EmptyMeta, TransformLowercase), IsString)
       [] p = "hp" -> setCoercer(ValidateBy(ValidateBy(EmptyMeta, Min(1)), IsNumber),
                                 CoerceNumberOf)
       [] p = "lang" -> IsOptional(setCoercer(ValidateBy(EmptyMeta, IsString),
                                              CoerceDefaultOf(Str(<<"e", "n">>))))]]

\* a label that is lowercased and trimmed after a length check, an optional
\* coerced code whose second transform rejects numbers, and a property that
\* is declared without taking part in the pipeline
LabelDto ==
  [props |-> <<"code", "label", "note">>,
   meta |-> [p \in {"code", "label", "note"} |->
     CASE p = "label" -> ValidateBy(pushTransform(pushTransform(EmptyMeta,
                           TransformLowercase), TransformTrim), MinLength(2))
       [] p = "code" -> IsOptional(setCoercer(ValidateBy(pushTransform(pushTransform(
                           EmptyMeta, TransformMap("add1000")), TransformUppercase),
                           IsNumber), CoerceNumberOf))
       [] p = "note" -> Declared]]

\* Coerce.Default on a required field, on an optional field, and an optional
\* field whose Transform.Map supplies a value for nil
StockDto ==
  [props |-> <<"count", "level", "size">>,
   meta |-> [p \in {"count", "level", "size"} |->
     CASE p = "level" -> setCoercer(ValidateBy(EmptyMeta, IsNumber), CoerceDefaultOf(Num(7)))
       [] p = "count" -> IsOptional(setCoercer(ValidateBy(EmptyMeta, IsNumber),
                                               CoerceDefaultOf(Num(3))))
       [] p = "size" -> IsOptional(pushTransform(EmptyMeta, TransformMap("orZero")))]]

\* union.spec.ts ADto, BDto, OverlapA, OverlapB
ADto == [props |-> <<"a">>, meta |-> [p \in {"a"} |-> ValidateBy(EmptyMeta, IsString)]]

BDto ==
  [props |-> <<"b">>,
   meta |-> [p \in {"b"} |-> ValidateBy(ValidateBy(EmptyMeta, Min(1)), IsNumber)]]

OverlapA == [props |-> <<"x">>, meta |-> [p \in {"x"} |-> ValidateBy(EmptyMeta, IsString)]]

OverlapB == [props |-> <<"x">>, meta |-> [p \in {"x"} |-> ValidateBy(EmptyMeta, IsString)]]

\* union.spec.ts UnionHost.x, and Host.v extended with two more schemas
XorHost ==
  [props |-> <<"v", "x">>,
   meta |-> [p \in {"v", "x"} |->
     CASE p = "x" -> ValidateBy(EmptyMeta,
                       ExclusiveUnion(<<SchemaCtor("ADto"), SchemaCtor("BDto")>>))
       [] p = "v" -> ValidateBy(EmptyMeta,
                       ExclusiveUnion(<<SchemaCtor("ADto"), SchemaFn(MustBeTable),
                                        SchemaCtor("OverlapA"), SchemaCtor("OverlapB")>>))]]

ClassNames ==
  {"PipelineDto", "UserDto", "LabelDto", "StockDto", "ADto", "BDto",
   "OverlapA", "OverlapB", "XorHost"}

ClassDefs ==
  [c \in ClassNames |->
    CASE c = "PipelineDto" -> PipelineDto
      [] c = "UserDto" -> UserDto
      [] c = "LabelDto" -> LabelDto
      [] c = "StockDto" -> StockDto
      [] c = "ADto" -> ADto
      [] c = "BDto" -> BDto
      [] c = "OverlapA" -> OverlapA
      [] c = "OverlapB" -> OverlapB
      [] c = "XorHost" -> XorHost]

\* Reflect.getProperties(obj)
getProperties(c) == ClassDefs[c].props

\* Reflect.hasMetadata(obj, META_MARKER_KEY, property)
hasMarker(c, property) == ClassDefs[c].meta[property].marker

\* Reflect.getMetadata<boolean>(obj, key, property) ?? false
getFlag(c, key, property) == key \in ClassDefs[c].meta[property].flags

\* the range of a sequence
Range(s) == {s[i] : i \in 1..Len(s)}

\* helpers getAllowedKeys
getAllowedKeys(c) == Range(getProperties(c))

\* new Ctor(): no field of the test classes has an initializer
NewInstance == <<>>

(***************************************************************************)
(* Coercers (validators/coercion.ts).                                      *)
(***************************************************************************)
\* Coerce.String
CoerceString(message, value) ==
  IF isNil(value) THEN Ok(value)
  ELSE IF typeIs(value, "str") THEN Ok(value)
  ELSE IF typeIs(value, "num") \/ typeIs(value, "bool") THEN Ok(Str(tostring(value)))
  ELSE Fail(message)

\* Coerce.Number
CoerceNumber(message, value) ==
  IF isNil(value) THEN Ok(value)
  ELSE IF typeIs(value, "num") THEN Ok(value)
  ELSE IF typeIs(value, "str")
    THEN LET s == trim(value.s)
             n == tonumber(s)
         IN IF n # Nil THEN Ok(n) ELSE Fail(message)
  ELSE Fail(message)

\* Coerce.Boolean
CoerceBoolean(message, value) ==
  IF isNil(value) THEN Ok(value)
  ELSE IF typeIs(value, "bool") THEN Ok(value)
  ELSE IF typeIs(value, "str")
    THEN LET s == trim(lower(value.s))
         IN IF s = <<"t", "r", "u", "e">> \/ s = <<"1">> THEN Ok(Bool(TRUE))
            ELSE IF s = <<"f", "a", "l", "s", "e">> \/ s = <<"0">> THEN Ok(Bool(FALSE))
            ELSE Fail(message)
  ELSE Fail(message)

\* Coerce.Default without the test of the optional flag
CoerceDefault_anyField(valueOrFactory, value, ctx) ==
  IF ~isNil(value) THEN Ok(value) ELSE Ok(valueOrFactory)

\* Coerce.Default
CoerceDefault(valueOrFactory, value, ctx) ==
  LET optional == getFlag(ctx.object, <<"app:validators", "optional">>, ctx.property)
  IN IF ~optional THEN Ok(value)
     ELSE IF ~isNil(value) THEN Ok(value)
     ELSE Ok(valueOrFactory)

\* the call coercer(value, ctx)
RunCoercer(fn, value, ctx) ==
  CASE fn.k = "String" -> CoerceString(fn.message, value)
    [] fn.k = "Number" -> CoerceNumber(fn.message, value)
    [] fn.k = "Boolean" -> CoerceBoolean(fn.message, value)
    [] fn.k = "Default" -> CoerceDefault(fn.valueOrFactory, value, ctx)

(***************************************************************************)
(* Transforms (validators/transform.ts).                                   *)
(***************************************************************************)
\* what a call leaves behind when it raises instead of returning
Raised == [t |-> "raised"]

\* the mappers handed to Transform.Map: (v) => (v as number) + 1000 of the
\* test suite (arithmetic on a value that is not a number raises), and
\* (v) => v ?? 0
ApplyMapper(mapper, value) ==
  CASE mapper = "add1000" -> IF typeIs(value, "num") THEN Num(value.n + 1000) ELSE Raised
    [] mapper = "orZero" -> IF isNil(value) THEN Num(0) ELSE value

\* Transform.Map
Map(mapper, value) == Ok(ApplyMapper(mapper, value))

\* Transform.Trim
Trim(message, value) ==
  IF isNil(value) THEN Ok(value)
  ELSE IF ~typeIs(value, "str") THEN Fail(message)
  ELSE Ok(Str(trim(value.s)))

\* Transform.Lowercase
Lowercase(message, value) ==
  IF isNil(value) THEN Ok(value)
  ELSE IF ~typeIs(value, "str") THEN Fail(message)
  ELSE Ok(Str(lower(value.s)))

\* Transform.Uppercase
Uppercase(message, value) ==
  IF isNil(value) THEN Ok(value)
  ELSE IF ~typeIs(value, "str") THEN Fail(message)
  ELSE Ok(Str(upper(value.s)))

\* the call tf(value, ctx)
RunTransform(tf, value, ctx) ==
  CASE tf.k = "Map" -> Map(tf.mapper, value)
    [] tf.k = "Trim" -> Trim(tf.message, value)
    [] tf.k = "Lowercase" -> Lowercase(tf.message, value)
    [] tf.k = "Uppercase" -> Uppercase(tf.message, value)

(***************************************************************************)
(* Rules and schema combinators.                                           *)
(***************************************************************************)
\* every key that occurs in a class or in an input, in the order of
\* Luau's string comparison
KeyOrder ==
  <<"a", "b", "code", "count", "extra", "hp", "label", "lang", "level", "n",
    "name", "note", "ok", "other", "size", "tag", "v", "w", "x">>

\* unknown.sort()
sort(keys) == SelectSeq(KeyOrder, LAMBDA k : k \in keys)

\* the entry of the call log that records one invocation
Call(phase, property, index, fn, arg, res) ==
  [phase |-> phase, property |-> property, index |-> index, fn |-> fn,
   arg |-> arg, res |-> res]

\* a ValidationError
ValidationError(property, value, constraints) ==
  [property |-> property, value |-> value, constraints |-> constraints]

\* helpers formatErrors
formatErrors(errs) ==
  MsgJoin("; ", [i \in 1..Len(errs) |->
                  MsgJoin(errs[i].property, errs[i].constraints)])

\* the messages of the rules that returned one, in order
Messages(results) ==
  LET failed == SelectSeq(results, LAMBDA r : ~r.ok)
  IN [i \in 1..Len(failed) |-> failed[i].message]

\* the body of the rule that Max registers, with < for <=
MaxRule_exclusive(fn, value) ==
  IF ~typeIs(value, "num") THEN Fail(fn.message)
  ELSE IF value.n < fn.max THEN Pass ELSE Fail(fn.message)

\* the body of the rule that Max registers; a number n + 1/2 is <= max
\* when n < max
MaxRule(fn, value) ==
  IF ~typeIs(value, "num") THEN Fail(fn.message)
  ELSE IF "half" \in DOMAIN value
    THEN IF value.n < fn.max THEN Pass ELSE Fail(fn.message)
  ELSE IF value.n <= fn.max THEN Pass ELSE Fail(fn.message)

\* the body of the rule that MaxLength registers
MaxLengthRule(fn, value) ==
  IF ~typeIs(value, "str") THEN Fail(fn.message)
  ELSE IF Len(value.s) <= fn.maxLength THEN Pass ELSE Fail(fn.message)

RECURSIVE RunRule(_, _, _)
RECURSIVE validateAgainstSchema(_, _, _, _)
RECURSIVE validate(_, _)
RECURSIVE validateLoop(_, _, _)

\* the verdict of ExclusiveUnion with the loop left at the second match
exactlyOne_stopAtSecondMatch(res) ==
  LET matches == Cardinality({i \in 1..Len(res) : res[i].ok})
  IN IF matches = 1 THEN Pass
     ELSE IF matches = 0
       THEN Fail(MsgJoin("must match exactly one variant (matched none: ", Messages(res)))
       ELSE Fail(MsgN("must match exactly one variant (matched ", 2))

\* the verdict of ExclusiveUnion on the results of all its schemas: the
\* number of matches, and the reasons of the schemas that did not match
exactlyOne(res) ==
  LET matches == Cardinality({i \in 1..Len(res) : res[i].ok})
  IN IF matches = 1 THEN Pass
     ELSE IF matches = 0
       THEN Fail(MsgJoin("must match exactly one variant (matched none: ", Messages(res)))
       ELSE Fail(MsgN("must match exactly one variant (matched ", matches))

\* the body of the rule that ExclusiveUnion(...schemas) registers
ExclusiveUnionRule(schemas, value, ctx) ==
  IF isNil(value) THEN Pass
  ELSE exactlyOne([i \in 1..Len(schemas) |->
                    validateAgainstSchema(schemas[i], value, ctx, {})])

\* the call fn(value, ctx) of a rule
RunRule(fn, value, ctx) ==
  CASE fn.k = "IsString" -> IF typeIs(value, "str") THEN Pass ELSE Fail(fn.message)
    [] fn.k = "IsNumber" -> IF typeIs(value, "num") THEN Pass ELSE Fail(fn.message)
    [] fn.k = "Min" ->
         IF ~typeIs(value, "num") THEN Fail(fn.message)
         ELSE IF value.n >= fn.min THEN Pass ELSE Fail(fn.message)
    [] fn.k = "MinLength" ->
         IF ~typeIs(value, "str") THEN Fail(fn.message)
         ELSE IF Len(value.s) >= fn.minLength THEN Pass ELSE Fail(fn.message)
    [] fn.k = "Max" -> MaxRule(fn, value)
    [] fn.k = "MaxLength" -> MaxLengthRule(fn, value)
    [] fn.k = "MustBeTable" -> IF typeIs(value, "tab") THEN Pass ELSE Fail(fn.message)
    [] fn.k = "OkMustBeTrue" ->
         IF typeIs(value, "tab")
           THEN IF Get(value.f, "ok") = Bool(TRUE) THEN Pass ELSE Fail(fn.message)
         ELSE IF typeIs(value, "str") THEN Fail(fn.message)
         ELSE Raised
    [] fn.k = "ExclusiveUnion" -> ExclusiveUnionRule(fn.schemas, value, ctx)

\* the end of validateAgainstSchema: the errors of validate(instance)
schemaVerdict(errs) == IF Len(errs) = 0 THEN Pass ELSE Fail(formatErrors(errs))

\* the unknown keys of a value, reported in sorted order
unknownProperties(unknown) ==
  Fail(MsgJoin("unknown properties: ", [i \in 1..Len(unknown) |-> Msg(unknown[i])]))

\* the loop over pairs(value) assigning every key of the value onto the
\* instance, declared or not
assignKnown_everyKey(allowed, value) == value.f

\* the fields of the fresh instance after the loop over pairs(value): only
\* the keys that the instance declares are assigned
assignKnown(allowed, value) ==
  [k \in (DOMAIN value.f) \cap allowed |-> value.f[k]]

validateAgainstSchema(schema, value, ctx, allowKeys) ==
  IF schema.kind = "function"
    THEN RunRule(schema.fn, value, ctx)
  ELSE IF ~typeIs(value, "tab")
    THEN Fail(Msg("must be an object"))
  ELSE LET allowed == getAllowedKeys(schema.ctor)
           unknown == {k \in DOMAIN value.f : k \notin allowed /\ k \notin allowKeys}
       IN IF unknown # {}
            THEN unknownProperties(sort(unknown))
            ELSE schemaVerdict(validate(schema.ctor, assignKnown(allowed, value)).errors)

(***************************************************************************)
(* validate (validation.ts).  The state of the loop over the properties is *)
(* the entity, the errors pushed so far and the calls made so far.         *)
(***************************************************************************)
\* the loop over the rules leaving at the first rule that returns a message
RunValidators_shortCircuit(validators, value, ctx) ==
  LET all == [i \in 1..Len(validators) |-> RunRule(validators[i], value, ctx)]
      failing == {i \in 1..Len(all) : ~all[i].ok}
  IN IF failing = {} THEN all
     ELSE SubSeq(all, 1, CHOOSE i \in failing : \A j \in failing : i <= j)

\* the phases that validate and parseInto share once a field's value has
\* been coerced: all validators, then the transforms up to the first that
\* fails.  The result is the last value, the calls, and the error if any.
RunValidators(validators, value, ctx) ==
  [i \in 1..Len(validators) |-> RunRule(validators[i], value, ctx)]

RECURSIVE TransformLoop(_, _, _, _)
TransformLoop(transforms, i, property, st) ==
  IF i > Len(transforms) THEN st
  ELSE LET ctx == [object |-> st.object, property |-> property, value |-> st.value]
           res == RunTransform(transforms[i], st.value, ctx)
           calls == Append(st.calls,
                           Call("transform", property, i, transforms[i], st.value, res))
       IN IF ~res.ok
            THEN [st EXCEPT !.calls = calls, !.failed = <<res.message>>]
            ELSE TransformLoop(transforms, i + 1, property,
                               [st EXCEPT !.calls = calls, !.value = res.value])

\* the check of the collected messages left out
constraintsFailed_never(constraints) == FALSE

\* if (constraints.size() > 0) { errors.push(...); continue; }
constraintsFailed(constraints) == Len(constraints) > 0

\* the optional skip left out
skipOptional_never(optional, value) == FALSE

\* if (optional && isNil(value)) continue;
skipOptional(optional, value) == optional /\ isNil(value)

\* the calls of the rules of a field, for the log
RuleCalls(property, validators, value, results) ==
  [i \in 1..Len(results) |->
    Call("validate", property, i, validators[i], value, results[i])]

\* validate undoing the writes of a field's transforms when one of them fails
validateTransformed_rollback(property, st, t) ==
  [obj |-> IF t.failed = <<>> THEN Put(st.obj, property, t.value) ELSE st.obj,
   log |-> st.log \o t.calls,
   errors |-> IF t.failed = <<>> THEN st.errors
              ELSE Append(st.errors, ValidationError(property, t.value, t.failed))]

\* validate after the transforms of a field: every successful transform has
\* written its result onto the entity, so the entity ends with the last
\* one; the transform that failed, if any, is the field's error
validateTransformed(property, st, t) ==
  [obj |-> Put(st.obj, property, t.value),
   log |-> st.log \o t.calls,
   errors |-> IF t.failed = <<>> THEN st.errors
              ELSE Append(st.errors, ValidationError(property, t.value, t.failed))]

\* validate pushing one error entry for every message of a field's rules
validateChecked_entryPerMessage(c, property, st, m, value, results) ==
  IF constraintsFailed(Messages(results))
    THEN [st EXCEPT !.log = @ \o RuleCalls(property, m.validators, value, results),
                    !.errors = @ \o [i \in 1..Len(Messages(results)) |->
                                  ValidationError(property, value,
                                                  <<Messages(results)[i]>>)]]
    ELSE validateTransformed(property,
           [st EXCEPT !.log = @ \o RuleCalls(property, m.validators, value, results)],
           TransformLoop(m.transforms, 1, property,
                         [object |-> c, value |-> value, calls |-> <<>>, failed |-> <<>>]))

\* validate after the rules of a field: their messages are the field's
\* error, or the transforms run
validateChecked(c, property, st, m, value, results) ==
  IF constraintsFailed(Messages(results))
    THEN [st EXCEPT !.log = @ \o RuleCalls(property, m.validators, value, results),
                    !.errors = Append(@, ValidationError(property, value,
                                                         Messages(results)))]
    ELSE validateTransformed(property,
           [st EXCEPT !.log = @ \o RuleCalls(property, m.validators, value, results)],
           TransformLoop(m.transforms, 1, property,
                         [object |-> c, value |-> value, calls |-> <<>>, failed |-> <<>>]))

\* validate keeping the coerced value to itself: the rules see it, the
\* entity does not
validateCoerced_noWriteBack(c, property, st, m, value0, cres) ==
  IF ~cres.ok
    THEN [st EXCEPT !.errors = Append(@, ValidationError(property, value0,
                                                         <<cres.message>>))]
  ELSE IF skipOptional(getFlag(c, META_OPT_KEY, property), cres.value) THEN st
  ELSE validateChecked(c, property, st, m, cres.value,
         RunValidators(m.validators, cres.value,
                       [object |-> c, property |-> property, value |-> cres.value]))

\* validate after the coercer of a field: a failure is the field's error; a
\* coerced value is written onto the entity; an optional field without a
\* value is left; otherwise every rule runs
validateCoerced(c, property, st, m, value0, cres) ==
  IF ~cres.ok
    THEN [st EXCEPT !.errors = Append(@, ValidationError(property, value0,
                                                         <<cres.message>>))]
  ELSE IF skipOptional(getFlag(c, META_OPT_KEY, property), cres.value)
    THEN [st EXCEPT !.obj = IF m.coercer # NoCoercer THEN Put(@, property, cres.value)
                                                     ELSE @]
  ELSE validateChecked(c, property,
         [st EXCEPT !.obj = IF m.coercer # NoCoercer THEN Put(@, property, cres.value)
                                                     ELSE @],
         m, cres.value,
         RunValidators(m.validators, cres.value,
                       [object |-> c, property |-> property, value |-> cres.value]))

\* the call of the coercer of a field, recorded in the log
validateCoercing(c, property, st, m, value0, cres) ==
  validateCoerced(c, property,
    [st EXCEPT !.log = Append(@, Call("coerce", property, 0, m.coercer, value0, cres))],
    m, value0, cres)

\* validate for a field that takes part, whose metadata is m and whose
\* value on the entity is value0
validateMarked(c, property, st, m, value0) ==
  IF m.coercer = NoCoercer
    THEN validateCoerced(c, property, st, m, value0, Ok(value0))
    ELSE validateCoercing(c, property, st, m, value0,
           RunCoercer(m.coercer, value0,
                      [object |-> c, property |-> property, value |-> value0]))

\* one iteration of the loop of validate
validateProperty(c, property, st) ==
  IF ~hasMarker(c, property) THEN st
  ELSE validateMarked(c, property, st, ClassDefs[c].meta[property],
                      Get(st.obj, property))

\* the loop of validate leaving at the first field that has an error
validateLoop_stopAtFirstError(c, i, st) ==
  IF i > Len(getProperties(c)) \/ st.errors # <<>> THEN st
  ELSE validateLoop(c, i + 1, validateProperty(c, getProperties(c)[i], st))

\* for (const property of props) { ... } of validate
validateLoop(c, i, st) ==
  IF i > Len(getProperties(c)) THEN st
  ELSE validateLoop(c, i + 1, validateProperty(c, getProperties(c)[i], st))

validate(c, obj) ==
  validateLoop(c, 1, [obj |-> obj, errors |-> <<>>, log |-> <<>>])

(***************************************************************************)
(* parseInto (validation.ts).  `order` is the order in which pairs(plain)  *)
(* enumerates the keys of plain.                                           *)
(***************************************************************************)
\* the loop over pairs(plain): unknown keys become errors, the others are
\* copied to the staging area
RECURSIVE stageLoop(_, _, _, _)
stageLoop(allowed, plain, order, st) ==
  IF order = <<>> THEN st
  ELSE LET key == Head(order)
           v == plain[key]
       IN IF key \notin allowed
            THEN stageLoop(allowed, plain, Tail(order),
                   [st EXCEPT !.errors = Append(@,
                      ValidationError(key, v, <<MsgJoin("unknown property: ", <<Msg(key)>>)>>))])
            ELSE stageLoop(allowed, plain, Tail(order),
                   [st EXCEPT !.staged = Put(@, key, v)])

\* the early return after the staging loop left out
unknownKeysFound_never(errors) == FALSE

\* if (errors.size() > 0) return { ok: false, errors }, after the staging loop
unknownKeysFound(errors) == Len(errors) > 0

\* parseInto leaving the staged value of a field as plain gave it: the
\* transforms run and their result is dropped
parseTransformed_keepStaged(property, st, t) ==
  IF t.failed # <<>>
    THEN [st EXCEPT !.log = @ \o t.calls,
                    !.errors = Append(@, ValidationError(property, t.value, t.failed))]
  ELSE [st EXCEPT !.log = @ \o t.calls]

\* parseInto after the transforms of a field: the last value is staged unless
\* the field's transform failed, which is seen as the last error being the
\* field's
parseTransformed(property, st, t) ==
  IF t.failed # <<>>
    THEN [st EXCEPT !.log = @ \o t.calls,
                    !.errors = Append(@, ValidationError(property, t.value, t.failed))]
  ELSE IF Len(st.errors) > 0 /\ st.errors[Len(st.errors)].property = property
    THEN [st EXCEPT !.log = @ \o t.calls]
  ELSE [st EXCEPT !.log = @ \o t.calls, !.staged = Put(@, property, t.value)]

\* parseInto after the rules of a field
parseChecked(c, property, st, m, value, results) ==
  IF constraintsFailed(Messages(results))
    THEN [st EXCEPT !.log = @ \o RuleCalls(property, m.validators, value, results),
                    !.errors = Append(@, ValidationError(property, value,
                                                         Messages(results)))]
    ELSE parseTransformed(property,
           [st EXCEPT !.log = @ \o RuleCalls(property, m.validators, value, results)],
           TransformLoop(m.transforms, 1, property,
                         [object |-> c, value |-> value, calls |-> <<>>, failed |-> <<>>]))

\* parseInto without the continue after the coercer's failure: the error is
\* recorded and the rules run on the value as it was
parseCoerced_goOn(c, property, st, m, value0, cres) ==
  IF ~cres.ok
    THEN parseChecked(c, property,
           [st EXCEPT !.errors = Append(@, ValidationError(property, value0,
                                                           <<cres.message>>))],
           m, value0,
           RunValidators(m.validators, value0,
                         [object |-> c, property |-> property, value |-> value0]))
  ELSE IF skipOptional(getFlag(c, META_OPT_KEY, property), cres.value)
    THEN [st EXCEPT !.staged = Put(@, property, Nil)]
  ELSE parseChecked(c, property, st, m, cres.value,
         RunValidators(m.validators, cres.value,
                       [object |-> c, property |-> property, value |-> cres.value]))

\* parseInto after the coercer of a field: an optional field without a value
\* is staged as nil; nothing else is staged before the transforms
parseCoerced(c, property, st, m, value0, cres) ==
  IF ~cres.ok
    THEN [st EXCEPT !.errors = Append(@, ValidationError(property, value0,
                                                         <<cres.message>>))]
  ELSE IF skipOptional(getFlag(c, META_OPT_KEY, property), cres.value)
    THEN [st EXCEPT !.staged = Put(@, property, Nil)]
  ELSE parseChecked(c, property, st, m, cres.value,
         RunValidators(m.validators, cres.value,
                       [object |-> c, property |-> property, value |-> cres.value]))

\* the call of the coercer of a field, recorded in the log
parseCoercing(c, property, st, m, value0, cres) ==
  parseCoerced(c, property,
    [st EXCEPT !.log = Append(@, Call("coerce", property, 0, m.coercer, value0, cres))],
    m, value0, cres)

\* parseInto for a field that takes part, whose metadata is m and whose
\* staged value is value0
parseMarked(c, property, st, m, value0) ==
  IF m.coercer = NoCoercer
    THEN parseCoerced(c, property, st, m, value0, Ok(value0))
    ELSE parseCoercing(c, property, st, m, value0,
           RunCoercer(m.coercer, value0,
                      [object |-> c, property |-> property, value |-> value0]))

\* one iteration of the loop of parseInto over the properties
parseProperty(c, property, st) ==
  IF ~hasMarker(c, property) THEN st
  ELSE parseMarked(c, property, st, ClassDefs[c].meta[property],
                   Get(st.staged, property))

RECURSIVE parseLoop(_, _, _)
parseLoop(c, i, st) ==
  IF i > Len(getProperties(c)) THEN st
  ELSE parseLoop(c, i + 1, parseProperty(c, getProperties(c)[i], st))

\* commit that walks the keys of target instead of those of staged
commit_targetKeys(fields, staged) ==
  [k \in DOMAIN fields |-> IF k \in DOMAIN staged THEN staged[k] ELSE fields[k]]

\* for (const [k, v] of pairs(staged)) target[k] = v
commit(fields, staged) ==
  [k \in (DOMAIN fields) \cup (DOMAIN staged) |->
    IF k \in DOMAIN staged THEN staged[k] ELSE fields[k]]

\* parseFinish with the commit loop ahead of the error check
parseFinish_commitFirst(target, st) ==
  [ok |-> Len(st.errors) = 0, errors |-> st.errors, log |-> st.log,
   target |-> [target EXCEPT !.fields = commit(@, st.staged)]]

\* the end of parseInto: fail without touching target, or commit and succeed
parseFinish(target, st) ==
  IF Len(st.errors) > 0
    THEN [ok |-> FALSE, errors |-> st.errors, target |-> target, log |-> st.log]
    ELSE [ok |-> TRUE, errors |-> <<>>, log |-> st.log,
          target |-> [target EXCEPT !.fields = commit(@, st.staged)]]

\* parseInto(target, plain); target is an instance of class c.  The result
\* carries the target as the call leaves it; on success it is the value.
parseInto(c, target, plain, order) ==
  LET st0 == stageLoop(getAllowedKeys(c), plain, order,
                       [staged |-> <<>>, errors |-> <<>>, log |-> <<>>])
  IN IF unknownKeysFound(st0.errors)
       THEN [ok |-> FALSE, errors |-> st0.errors, target |-> target, log |-> st0.log]
       ELSE parseFinish(target, parseLoop(c, 1, st0))

\* assertParsed without the test of res.ok
assertParsed_noCheck(res) == [raised |-> FALSE, value |-> res.target]

\* assertParsed(res): the value, or a raised error
assertParsed(res) ==
  IF res.ok THEN [raised |-> FALSE, value |-> res.target]
            ELSE [raised |-> TRUE, errors |-> res.errors]

\* WithFrom(Base).from(plain): the promise that the async function returns
from(c, id, plain, order) ==
  LET instance == [id |-> id, fields |-> NewInstance]
      res == parseInto(c, instance, plain, order)
      out == assertParsed(res)
  IN IF out.raised THEN [state |-> "rejected", res |-> res]
                   ELSE [state |-> "resolved", value |-> out.value, res |-> res]

(***************************************************************************)
(* The state machine: a caller holds one instance of one class, assigns    *)
(* fields, and calls validate, parseInto and from.                         *)
(***************************************************************************)
\* calls of validate, parseInto and from in one behaviour
MaxCalls == 1

TopClasses == {"PipelineDto", "UserDto", "LabelDto", "StockDto", "XorHost"}

S(chars) == Str(chars)

\* the values a caller supplies for a property, first to last
SampleSeq(c, p) ==
  CASE c = "PipelineDto" ->
         <<S(<<" ", "1", "0", " ">>), S(<<"9">>), S(<<"n", "o">>)>>
    [] c = "UserDto" /\ p = "name" -> <<S(<<"T", "E", "S", "T">>)>>
    [] c = "UserDto" /\ p = "hp" -> <<S(<<"1", "0">>), S(<<"0">>)>>
    [] c = "UserDto" /\ p = "lang" -> <<S(<<"s", "v">>)>>
    [] c = "LabelDto" /\ p = "label" -> <<S(<<" ", "A", "B", " ">>), S(<<" ", " ", "a">>)>>
    [] c = "LabelDto" /\ p = "code" -> <<Num(5)>>
    [] c = "LabelDto" /\ p = "note" -> <<S(<<"h", "i">>)>>
    [] c = "StockDto" /\ p = "level" -> <<Num(1), S(<<"x">>)>>
    [] c = "StockDto" /\ p = "count" -> <<Num(9)>>
    [] c = "StockDto" /\ p = "size" -> <<Num(4)>>
    [] c = "XorHost" /\ p = "x" ->
         <<Tab([k \in {"a"} |-> S(<<"h", "i">>)]), Tab([k \in {"b"} |-> Num(0)])>>
    [] c = "XorHost" /\ p = "v" ->
         <<Tab([k \in {"x"} |-> S(<<"h", "i">>)]), Tab(EmptyTable), S(<<"s">>)>>
    [] p = "extra" -> <<Num(123)>>
    [] p = "other" -> <<S(<<"x">>)>>

UnknownKeys == {"extra", "other"}

\* every bag: each key is missing or holds one of its samples
Bags(c, keys) ==
  LET choices == {ch \in [keys -> 0..3] :
                    \A k \in keys : ch[k] <= Len(SampleSeq(c, k))}
  IN {[k \in {x \in keys : ch[x] > 0} |-> SampleSeq(c, k)[ch[k]]] : ch \in choices}

\* a bag that gives every key its i-th sample (when it has one)
Uniform(c, keys, i) ==
  [k \in {x \in keys : Len(SampleSeq(c, x)) >= i} |-> SampleSeq(c, k)[i]]

Merge(f, g) == [k \in (DOMAIN f) \cup (DOMAIN g) |-> IF k \in DOMAIN g THEN g[k] ELSE f[k]]

\* the plain bags given to parseInto and to from: every bag over the declared
\* keys, and the empty and the uniform ones extended with unknown keys
Plains ==
  [c \in TopClasses |->
    Bags(c, getAllowedKeys(c)) \cup
    {Merge(b, u) : b \in {<<>>, Uniform(c, getAllowedKeys(c), 1),
                          Uniform(c, getAllowedKeys(c), 2)},
                   u \in Bags(c, UnknownKeys)}]

Reverse(s) == [i \in 1..Len(s) |-> s[Len(s) + 1 - i]]

\* the orders in which pairs(plain) may enumerate the keys; the order shows
\* only in the order of the unknown-key errors, so two orders are tried, one
\* the reverse of the other, when plain has several unknown keys
Orders(c, plain) ==
  IF Cardinality((DOMAIN plain) \ getAllowedKeys(c)) > 1
    THEN {sort(DOMAIN plain), Reverse(sort(DOMAIN plain))}
    ELSE {sort(DOMAIN plain)}

\* the application of one rule to one value: before it is made, and after
NoTrial == [done |-> FALSE, fn |-> [k |-> "none"]]

\* the tables that a caller has built, by identity
NoHeap == <<>>

VARIABLES cls, target, nextId, calls, last, trial, heap

vars == <<cls, target, nextId, calls, last, trial, heap>>

NoEntity == [id |-> 0, fields |-> <<>>]

\* the record of the last operation: what it was given, what the instance it
\* worked on held before it, what it returned and which calls it made
Last(op, plain, order, pre, ok, errors, log, value, promise) ==
  [op |-> op, plain |-> plain, order |-> order, pre |-> pre, ok |-> ok,
   errors |-> errors, log |-> log, value |-> value, promise |-> promise]

Init ==
  /\ cls \in TopClasses
  /\ target = [id |-> 1, fields |-> NewInstance]
  /\ nextId = 2
  /\ calls = 0
  /\ last = Last("new", <<>>, <<>>, target, TRUE, <<>>, <<>>, NoEntity, "none")
  /\ trial = NoTrial
  /\ heap = NoHeap

\* dto.p = v, while the caller fills the instance it has constructed
Assign(p, v) ==
  /\ last.op \in {"new", "assign"}
  /\ target' = [target EXCEPT !.fields = Put(@, p, v)]
  /\ last' = Last("assign", <<>>, <<>>, target, TRUE, <<>>, <<>>, NoEntity, "none")
  /\ UNCHANGED <<cls, nextId, calls, trial, heap>>

\* validate(dto)
Validate ==
  /\ calls < MaxCalls
  /\ calls' = calls + 1
  /\ LET r == validate(cls, target.fields)
     IN /\ target' = [target EXCEPT !.fields = r.obj]
        /\ last' = Last("validate", <<>>, <<>>, target, Len(r.errors) = 0, r.errors,
                        r.log, NoEntity, "none")
  /\ UNCHANGED <<cls, nextId, trial, heap>>

\* parseInto(dto, plain)
ParseInto(plain, order) ==
  /\ calls < MaxCalls
  /\ calls' = calls + 1
  /\ LET r == parseInto(cls, target, plain, order)
     IN /\ target' = r.target
        /\ last' = Last("parseInto", plain, order, target, r.ok, r.errors, r.log,
                        IF r.ok THEN r.target ELSE NoEntity, "none")
  /\ UNCHANGED <<cls, nextId, trial, heap>>

\* dto = await Dto.from(plain): on rejection the caller keeps what it had
From(plain, order) ==
  /\ calls < MaxCalls
  /\ calls' = calls + 1
  /\ LET r == from(cls, nextId, plain, order)
     IN /\ target' = IF r.state = "resolved" THEN r.value ELSE target
        /\ last' = Last("from", plain, order, [id |-> nextId, fields |-> NewInstance],
                        r.res.ok, r.res.errors, r.res.log,
                        IF r.state = "resolved" THEN r.value ELSE NoEntity, r.state)
  /\ nextId' = nextId + 1
  /\ UNCHANGED <<cls, trial, heap>>

Next ==
  \/ \E p \in getAllowedKeys(cls) : \E i \in 1..Len(SampleSeq(cls, p)) :
       Assign(p, SampleSeq(cls, p)[i])
  \/ Validate
  \/ \E plain \in Plains[cls] : \E order \in Orders(cls, plain) : ParseInto(plain, order)
  \/ \E plain \in Plains[cls] : \E order \in Orders(cls, plain) : From(plain, order)

Spec == Init /\ [][Next]_vars

(***************************************************************************)
(* The schema combinators Union, Intersect and DiscriminatedUnion.  Union  *)
(* and Intersect are given with the results of the schemas they evaluated, *)
(* in the order in which they evaluated them.                              *)
(***************************************************************************)
Union(schemas) == [k |-> "Union", schemas |-> schemas]

Intersect(schemas) == [k |-> "Intersect", schemas |-> schemas]

DiscriminatedUnion(discriminator, map) ==
  [k |-> "DiscriminatedUnion", discriminator |-> discriminator, map |-> map,
   message |-> MsgJoin("invalid discriminator ", <<Msg(discriminator)>>)]

RECURSIVE UnionLoop(_, _, _, _, _)

\* the body of the loop of Union without the return on a match
UnionStep_noReturn(schemas, i, value, ctx, tried, res) ==
  UnionLoop(schemas, i + 1, value, ctx, Append(tried, res))

\* const res = validateAgainstSchema(s, value, ctx);
\* if (res.ok) return undefined; reasons.push(res.message)
UnionStep(schemas, i, value, ctx, tried, res) ==
  IF res.ok THEN [res |-> Pass, tried |-> Append(tried, res)]
  ELSE UnionLoop(schemas, i + 1, value, ctx, Append(tried, res))

\* for (const s of schemas) { ... } and the message that joins the reasons
UnionLoop(schemas, i, value, ctx, tried) ==
  IF i > Len(schemas)
    THEN [res |-> Fail(MsgJoin("must match one of the union variants (", Messages(tried))),
          tried |-> tried]
    ELSE UnionStep(schemas, i, value, ctx, tried,
                   validateAgainstSchema(schemas[i], value, ctx, {}))

\* the body of the rule that Union(...schemas) registers
UnionRule(schemas, value, ctx) ==
  IF isNil(value) THEN [res |-> Pass, tried |-> <<>>]
  ELSE UnionLoop(schemas, 1, value, ctx, <<>>)

\* the verdict of Intersect with the loop left at the first failure
allMatch_stopAtFirstFailure(res) ==
  LET bad == {i \in 1..Len(res) : ~res[i].ok}
      first == CHOOSE i \in bad : \A j \in bad : i <= j
  IN IF bad = {} THEN [res |-> Pass, tried |-> res]
     ELSE [res |-> Fail(MsgJoin("must satisfy all intersected schemas (",
                                <<res[first].message>>)),
           tried |-> SubSeq(res, 1, first)]

\* the verdict of Intersect on the results of all its schemas
allMatch(res) ==
  [res |-> IF Len(Messages(res)) = 0 THEN Pass
           ELSE Fail(MsgJoin("must satisfy all intersected schemas (", Messages(res))),
   tried |-> res]

\* the body of the rule that Intersect(...schemas) registers
IntersectRule(schemas, value, ctx) ==
  IF isNil(value) THEN [res |-> Pass, tried |-> <<>>]
  ELSE allMatch([i \in 1..Len(schemas) |->
                  validateAgainstSchema(schemas[i], value, ctx, {})])

\* the selected variant checked without the allowance for the discriminator
allowKeys_none(discriminator) == {}

\* { allowKeys: [discriminator] }
allowKeys(discriminator) == {discriminator}

\* return res.ok ? undefined : (res.message ?? message)
variantVerdict(res) == IF res.ok THEN Pass ELSE Fail(res.message)

\* the body of the rule that DiscriminatedUnion(discriminator, map) registers
DiscriminatedUnionRule(fn, value, ctx) ==
  IF isNil(value) THEN Pass
  ELSE IF ~typeIs(value, "tab") THEN Fail(Msg("must be an object"))
  ELSE IF ~typeIs(Get(value.f, fn.discriminator), "str") THEN Fail(fn.message)
  ELSE IF Get(value.f, fn.discriminator).s \notin DOMAIN fn.map THEN Fail(fn.message)
  ELSE variantVerdict(
         validateAgainstSchema(fn.map[Get(value.f, fn.discriminator).s], value, ctx,
                               allowKeys(fn.discriminator)))

(***************************************************************************)
(* Collections.  A table whose keys are values (numbers and strings, as    *)
(* the collection rules enumerate them) is a function from its keys to its *)
(* values; order is the order in which pairs() enumerates the keys.        *)
(***************************************************************************)
Table(e) == [t |-> "tab", e |-> e]

\* the number n + 1/2
Half(n) == [t |-> "num", n |-> n, half |-> TRUE]

\* math.floor(n)
floor(v) == Num(v.n)

\* t[k]
At(t, k) == IF k \in DOMAIN t.e THEN t.e[k] ELSE Nil

\* helpers isArrayLikeTable without its second loop
isArrayLikeTable_keysOnly(t) ==
  IF ~typeIs(t, "tab") THEN FALSE
  ELSE \A k \in DOMAIN t.e : typeIs(k, "num") /\ floor(k) = k /\ k.n >= 1

\* helpers isArrayLikeTable: every key is an integer >= 1, and the keys
\* 1..count are all present
isArrayLikeTable(t) ==
  IF ~typeIs(t, "tab") THEN FALSE
  ELSE IF \E k \in DOMAIN t.e : ~typeIs(k, "num") \/ floor(k) # k \/ k.n < 1 THEN FALSE
  ELSE \A i \in 1..Cardinality(DOMAIN t.e) : ~isNil(At(t, Num(i)))

\* helpers isNonArrayTable
isNonArrayTable(value) == typeIs(value, "tab") /\ ~isArrayLikeTable(value)

\* helpers isEmptyTable
isEmptyTable(value) == Cardinality(DOMAIN value.e) = 0

\* arr.size() of an array-like table
size(arr) == Cardinality(DOMAIN arr.e)

IsArray == [k |-> "IsArray", message |-> Msg("must be an array")]

\* the body of the rule that IsArray() registers
IsArrayRule(fn, value) ==
  IF ~typeIs(value, "tab") THEN Fail(fn.message)
  ELSE IF isArrayLikeTable(value) THEN Pass ELSE Fail(fn.message)

IsRecord == [k |-> "IsRecord", message |-> Msg("must be a record")]

\* the body of the rule that IsRecord() registers
IsRecordRule(fn, value) ==
  IF ~typeIs(value, "tab") THEN Fail(fn.message)
  ELSE IF ~isEmptyTable(value) /\ ~isNonArrayTable(value) THEN Fail(fn.message)
  ELSE IF \E k \in DOMAIN value.e : ~typeIs(k, "str") THEN Fail(fn.message)
  ELSE Pass

IsMap == [k |-> "IsMap", message |-> Msg("must be a map")]

\* the body of the rule that IsMap() registers
IsMapRule(fn, value) ==
  IF ~isNonArrayTable(value) THEN Fail(fn.message) ELSE Pass

\* element, key and value validators of the test suites:
\* (v) => (typeIs(v, type) ? undefined : message)
MustBe(type, message) == [k |-> "MustBe", type |-> type, message |-> Msg(message)]

\* (k) => (k.match("^[a-z_]+$")[0] ? undefined : "bad key")
LowerKey == [k |-> "LowerKey", message |-> Msg("bad key")]

\* no validator given for the keys or for the values
NoValidator == [k |-> "none"]

\* the call of an element, key or value validator
RunElement(ev, v) ==
  CASE ev.k = "MustBe" -> IF typeIs(v, ev.type) THEN Pass ELSE Fail(ev.message)
    [] ev.k = "LowerKey" ->
         IF ~typeIs(v, "str") THEN Raised
         ELSE IF v.s # <<>> /\ \A i \in 1..Len(v.s) :
              v.s[i] = "_" \/ \E j \in 1..Len(Lowers) : Lowers[j] = v.s[i]
           THEN Pass ELSE Fail(ev.message)

\* one call that a collection rule makes on one element or entry: what it
\* is about ("at", "key", "bad key", "set"), the index or key, and the result
Checked(kind, key, res) == [kind |-> kind, key |-> key, res |-> res]

\* `${message} (at ${idx}: ${msg})` and its like: the rule's message, what
\* the call was about, the index or key and the validator's message
Report(message, c) ==
  [text |-> message, n |-> 0, parts |-> <<c.kind, c.key, c.res.message>>]

\* the loop of an element rule going on after a failure and reporting the
\* last one
RECURSIVE firstFailure_goOn(_, _, _, _, _)
firstFailure_goOn(message, checks, i, tried, out) ==
  IF i > Len(checks) THEN [res |-> out, tried |-> tried]
  ELSE firstFailure_goOn(message, checks, i + 1, Append(tried, checks[i]),
         IF checks[i].res.ok THEN out
         ELSE IF checks[i].kind = "shape" THEN checks[i].res
         ELSE Fail(Report(message, checks[i])))

\* the loop of ArrayElements, RecordEntries, MapEntries and SetElements over
\* the calls they make in order: the first call that fails ends the rule
RECURSIVE firstFailure(_, _, _, _, _)
firstFailure(message, checks, i, tried, out) ==
  IF i > Len(checks) THEN [res |-> out, tried |-> tried]
  ELSE IF ~checks[i].res.ok
    THEN [res |-> IF checks[i].kind = "shape" THEN checks[i].res
                  ELSE Fail(Report(message, checks[i])),
          tried |-> Append(tried, checks[i])]
  ELSE firstFailure(message, checks, i + 1, Append(tried, checks[i]), out)

ArrayElements(elementValidator, message) ==
  [k |-> "ArrayElements", elementValidator |-> elementValidator, message |-> message]

\* the body of the rule that ArrayElements(elementValidator, message) registers
ArrayElementsRule(fn, value) ==
  IF ~typeIs(value, "tab") THEN [res |-> Fail(Msg(fn.message)), tried |-> <<>>]
  ELSE IF ~isArrayLikeTable(value) THEN [res |-> Fail(Msg(fn.message)), tried |-> <<>>]
  ELSE firstFailure(fn.message,
         [i \in 1..size(value) |->
           Checked("at", Num(i), RunElement(fn.elementValidator, At(value, Num(i))))],
         1, <<>>, Pass)

IsTuple(validators) ==
  [k |-> "IsTuple", validators |-> validators,
   defaultMsg |-> MsgN("must be a tuple of length ", Len(validators))]

\* the members of IsTuple: `at ${idx}: ${err}` for every slot that fails
members(checks) ==
  LET failed == SelectSeq(checks, LAMBDA c : ~c.res.ok)
  IN [i \in 1..Len(failed) |-> <<failed[i].kind, failed[i].key, failed[i].res.message>>]

\* IsTuple leaving its loop at the first slot that fails
tupleVerdict_firstOnly(fn, checks) ==
  LET bad == {i \in 1..Len(checks) : ~checks[i].res.ok}
      first == CHOOSE i \in bad : \A j \in bad : i <= j
  IN IF bad = {} THEN [res |-> Pass, tried |-> checks]
     ELSE [res |-> Fail([fn.defaultMsg EXCEPT !.parts = members(SubSeq(checks, 1, first))]),
           tried |-> SubSeq(checks, 1, first)]

\* the end of IsTuple: undefined, or defaultMsg + `(${members.join(", ")})`
tupleVerdict(fn, checks) ==
  [res |-> IF Len(members(checks)) = 0 THEN Pass
           ELSE Fail([fn.defaultMsg EXCEPT !.parts = members(checks)]),
   tried |-> checks]

\* the body of the rule that IsTuple(...validators) registers
IsTupleRule(fn, value) ==
  IF ~typeIs(value, "tab") THEN [res |-> Fail(fn.defaultMsg), tried |-> <<>>]
  ELSE IF ~isArrayLikeTable(value) THEN [res |-> Fail(fn.defaultMsg), tried |-> <<>>]
  ELSE IF size(value) # Len(fn.validators) THEN [res |-> Fail(fn.defaultMsg), tried |-> <<>>]
  ELSE tupleVerdict(fn,
         [i \in 1..Len(fn.validators) |->
           Checked("at", Num(i), RunElement(fn.validators[i], At(value, Num(i))))])

RecordEntries(keyValidator, valueValidator, message) ==
  [k |-> "RecordEntries", keyValidator |-> keyValidator,
   valueValidator |-> valueValidator, message |-> message]

MapEntries(keyValidator, valueValidator, message) ==
  [k |-> "MapEntries", keyValidator |-> keyValidator,
   valueValidator |-> valueValidator, message |-> message]

SetElements(elementValidator, message) ==
  [k |-> "SetElements", elementValidator |-> elementValidator, message |-> message]

\* the call of an optional validator: none when no validator was given
Optional(ev, kind, key, v) ==
  IF ev = NoValidator THEN <<>> ELSE <<Checked(kind, key, RunElement(ev, v))>>

\* the calls of the loop of RecordEntries, entry after entry: the test of
\* the key's type, the key validator, the value validator
RECURSIVE RecordChecks(_, _, _)
RecordChecks(fn, value, order) ==
  IF order = <<>> THEN <<>>
  ELSE <<Checked("shape", Head(order),
                 IF typeIs(Head(order), "str") THEN Pass
                 ELSE Fail(Msg("must be a record")))>>
       \o Optional(fn.keyValidator, "key", Head(order), Head(order))
       \o Optional(fn.valueValidator, "at", Head(order), value.e[Head(order)])
       \o RecordChecks(fn, value, Tail(order))

\* the body of the rule that RecordEntries(...) registers
RecordEntriesRule(fn, value, order) ==
  IF ~typeIs(value, "tab") THEN [res |-> Fail(Msg(fn.message)), tried |-> <<>>]
  ELSE IF ~isEmptyTable(value) /\ ~isNonArrayTable(value)
    THEN [res |-> Fail(Msg(fn.message)), tried |-> <<>>]
  ELSE firstFailure(fn.message, RecordChecks(fn, value, order), 1, <<>>, Pass)

\* the calls of the loop of MapEntries: the key validator, the value validator
RECURSIVE MapChecks(_, _, _)
MapChecks(fn, value, order) ==
  IF order = <<>> THEN <<>>
  ELSE Optional(fn.keyValidator, "bad key", Head(order), Head(order))
       \o Optional(fn.valueValidator, "at", Head(order), value.e[Head(order)])
       \o MapChecks(fn, value, Tail(order))

\* the body of the rule that MapEntries(...) registers
MapEntriesRule(fn, value, order) ==
  IF ~isNonArrayTable(value) THEN [res |-> Fail(Msg("must be a map")), tried |-> <<>>]
  ELSE firstFailure(fn.message, MapChecks(fn, value, order), 1, <<>>, Pass)

\* the calls of the loop of SetElements: the test that the entry's value is
\* true or 1, the element validator on the key
RECURSIVE SetChecks(_, _, _)
SetChecks(fn, value, order) ==
  IF order = <<>> THEN <<>>
  ELSE <<Checked("shape", Head(order),
                 IF value.e[Head(order)] \in {Bool(TRUE), Num(1)} THEN Pass
                 ELSE Fail(Msg("must be a set"))),
         Checked("at", Head(order), RunElement(fn.elementValidator, Head(order)))>>
       \o SetChecks(fn, value, Tail(order))

\* the body of the rule that SetElements(...) registers
SetElementsRule(fn, value, order) ==
  IF ~isNonArrayTable(value) THEN [res |-> Fail(Msg("must be a set")), tried |-> <<>>]
  ELSE firstFailure(fn.message, SetChecks(fn, value, order), 1, <<>>, Pass)

(***************************************************************************)
(* Literals (validators/literals.ts).                                      *)
(***************************************************************************)
\* literalToString
literalToString(v) ==
  IF typeIs(v, "str") THEN <<"\"">> \o v.s \o <<"\"">> ELSE tostring(v)

\* IsLiteral(...allowed): every argument is an allowed value
IsLiteral(allowed) ==
  [k |-> "IsLiteral", allowed |-> allowed,
   defaultMessage |->
     IF Len(allowed) = 1
       THEN MsgJoin("must be ", <<literalToString(allowed[1])>>)
       ELSE MsgJoin("must be one of ", [i \in 1..Len(allowed) |->
                                          literalToString(allowed[i])])]

\* the body of the rule that IsLiteral registers
IsLiteralRule(fn, value) ==
  IF \E i \in 1..Len(fn.allowed) : value = fn.allowed[i] THEN Pass
  ELSE Fail(fn.defaultMessage)

(***************************************************************************)
(* Template literals (validators/literals.ts).  Strings are sequences of   *)
(* characters; a Lua pattern is matched as Luau's string.match matches it: *)
(* a character class followed by ?, *, + or -, captures that do not change *)
(* what matches, ^ at the start and $ at the end as anchors, and no        *)
(* alternation: | is an ordinary character.                                *)
(***************************************************************************)
\* the magic characters that escapeLuaPattern escapes: ( ) . % + - * ? [ ^ $
Magic == {"(", ")", ".", "%", "+", "-", "*", "?", "[", "^", "$"}

\* escapeLuaPattern: gsub of every magic character c by %c
RECURSIVE escapeLuaPattern(_)
escapeLuaPattern(s) ==
  IF s = <<>> THEN <<>>
  ELSE (IF Head(s) \in Magic THEN <<"%", Head(s)>> ELSE <<Head(s)>>)
       \o escapeLuaPattern(Tail(s))

\* s.sub(i, j)
sub(s, i, j) == SubSeq(s, i, j)

\* s.find(word, init)[0] for a word without magic: the first index at or
\* after init where word starts, 0 for undefined
find(s, word, init) ==
  LET hits == {i \in init..(Len(s) - Len(word) + 1) : sub(s, i, i + Len(word) - 1) = word}
  IN IF hits = {} THEN 0 ELSE CHOOSE i \in hits : \A j \in hits : i <= j

\* the pattern of a placeholder; an unknown token stands for itself
StringPattern == <<"(", ".", "+", ")">>

NumberPattern == <<"(", "[", "%", "-", "]", "?", "%", "d", "+", "%", ".", "?", "%",
      "d", "*", ")">>

IntPattern == <<"(", "[", "%", "-", "]", "?", "%", "d", "+", ")">>

BooleanPattern ==
  <<"(", "(", "t", "r", "u", "e", ")", "|", "(", "f", "a", "l", "s",
      "e", ")", "|", "(", "1", ")", "|", "(", "0", ")", ")">>

tokenPattern(token) ==
  CASE token = <<"s", "t", "r", "i", "n", "g">> -> StringPattern
    [] token = <<"n", "u", "m", "b", "e", "r">> -> NumberPattern
    [] token = <<"i", "n", "t">> -> IntPattern
    [] token = <<"b", "o", "o", "l", "e", "a", "n">> -> BooleanPattern
    [] OTHER -> escapeLuaPattern(<<"$", "{">> \o token \o <<"}">>)

\* the while loop of IsTemplateLiteral from position i on
RECURSIVE compile(_, _)
compile(template, i) ==
  IF i > Len(template) THEN <<>>
  ELSE LET openIdx == find(sub(template, i, Len(template)), <<"$", "{">>, 1)
           absOpen == i + openIdx - 1
           closeStart == find(template, <<"}">>, absOpen + 2)
       IN IF openIdx = 0 THEN escapeLuaPattern(sub(template, i, Len(template)))
          ELSE IF closeStart = 0
            THEN escapeLuaPattern(sub(template, i, absOpen - 1))
                 \o escapeLuaPattern(sub(template, absOpen, Len(template)))
          ELSE escapeLuaPattern(sub(template, i, absOpen - 1))
               \o tokenPattern(sub(template, absOpen + 2, closeStart - 1))
               \o compile(template, closeStart + 1)

\* IsTemplateLiteral(template): the pattern is built when the factory is
\* called
IsTemplateLiteral(template) ==
  [k |-> "IsTemplateLiteral", template |-> template,
   pattern |-> <<"^">> \o compile(template, 1) \o <<"$">>,
   message |-> MsgJoin("must match template ", <<template>>)]

\* the index after the single-character class that starts at i: %x, a set
\* [...] or one character
RECURSIVE setEnd(_, _)
setEnd(p, i) ==
  IF i > Len(p) THEN i
  ELSE IF p[i] = "%" THEN setEnd(p, i + 2)
  ELSE IF p[i] = "]" THEN i + 1
  ELSE setEnd(p, i + 1)

classEnd(p, i) ==
  IF p[i] = "%" THEN i + 2
  ELSE IF p[i] = "[" THEN setEnd(p, i + 1)
  ELSE i + 1

\* c is in the class %x: the digits for %d, x itself for a character that
\* is no letter
inEscape(x, c) == IF x = "d" THEN IsDigit(c) ELSE c = x

\* c is in the set whose members start at i
RECURSIVE inSet(_, _, _)
inSet(p, i, c) ==
  IF i > Len(p) \/ p[i] = "]" THEN FALSE
  ELSE IF p[i] = "%" THEN inEscape(p[i + 1], c) \/ inSet(p, i + 2, c)
  ELSE p[i] = c \/ inSet(p, i + 1, c)

\* c matches the single-character class that starts at i
singleMatch(p, i, c) ==
  IF p[i] = "." THEN TRUE
  ELSE IF p[i] = "%" THEN inEscape(p[i + 1], c)
  ELSE IF p[i] = "[" THEN inSet(p, i + 1, c)
  ELSE p[i] = c

\* the characters of s from j up to k - 1 all match the class at i
run(p, i, s, j, k) == \A x \in j..(k - 1) : singleMatch(p, i, s[x])

\* the pattern from i on matches s from j on
RECURSIVE match(_, _, _, _)
match(p, i, s, j) ==
  IF i > Len(p) THEN TRUE
  ELSE IF p[i] \in {"(", ")"} THEN match(p, i + 1, s, j)
  ELSE IF p[i] = "$" /\ i = Len(p) THEN j = Len(s) + 1
  ELSE LET e == classEnd(p, i)
           q == IF e <= Len(p) THEN p[e] ELSE ""
       IN CASE q = "?" ->
                 \/ match(p, e + 1, s, j)
                 \/ j <= Len(s) /\ singleMatch(p, i, s[j]) /\ match(p, e + 1, s, j + 1)
            [] q \in {"*", "-"} ->
                 \E k \in j..(Len(s) + 1) : run(p, i, s, j, k) /\ match(p, e + 1, s, k)
            [] q = "+" ->
                 \E k \in (j + 1)..(Len(s) + 1) : run(p, i, s, j, k) /\ match(p, e + 1, s, k)
            [] OTHER ->
                 j <= Len(s) /\ singleMatch(p, i, s[j]) /\ match(p, e, s, j + 1)

\* value.match(pattern).size() > 0 for a pattern that starts with ^
matches(value, pattern) == match(pattern, 2, value, 1)

\* the body of the rule that IsTemplateLiteral registers
IsTemplateLiteralRule(fn, value) ==
  IF ~typeIs(value, "str") THEN Fail(fn.message)
  ELSE IF matches(value.s, fn.pattern) THEN Pass ELSE Fail(fn.message)

(***************************************************************************)
(* Rules taken alone: a rule is applied once to one value.                 *)
(***************************************************************************)
\* the call fn(value, ctx) of any rule, with the results of the schemas or
\* element validators that the rule evaluated on the way
ApplyRule(fn, value, ctx, order) ==
  CASE fn.k = "Union" -> UnionRule(fn.schemas, value, ctx)
    [] fn.k = "Intersect" -> IntersectRule(fn.schemas, value, ctx)
    [] fn.k = "DiscriminatedUnion" ->
         [res |-> DiscriminatedUnionRule(fn, value, ctx), tried |-> <<>>]
    [] fn.k = "IsArray" -> [res |-> IsArrayRule(fn, value), tried |-> <<>>]
    [] fn.k = "IsRecord" -> [res |-> IsRecordRule(fn, value), tried |-> <<>>]
    [] fn.k = "IsMap" -> [res |-> IsMapRule(fn, value), tried |-> <<>>]
    [] fn.k = "IsLiteral" -> [res |-> IsLiteralRule(fn, value), tried |-> <<>>]
    [] fn.k = "IsTemplateLiteral" ->
         [res |-> IsTemplateLiteralRule(fn, value), tried |-> <<>>]
    [] fn.k = "ArrayElements" -> ArrayElementsRule(fn, value)
    [] fn.k = "IsTuple" -> IsTupleRule(fn, value)
    [] fn.k = "RecordEntries" -> RecordEntriesRule(fn, value, order)
    [] fn.k = "MapEntries" -> MapEntriesRule(fn, value, order)
    [] fn.k = "SetElements" -> SetElementsRule(fn, value, order)
    [] OTHER -> [res |-> RunRule(fn, value, ctx), tried |-> <<>>]

\* the values given to the schema combinators: every table over the keys of
\* the schemas' classes, a tag and a key that no class declares
ComboSamples(p) ==
  CASE p = "a" -> <<S(<<"h", "i">>), Num(5)>>
    [] p = "b" -> <<Num(5), Num(0)>>
    [] p = "x" -> <<S(<<"h", "i">>)>>
    [] p = "ok" -> <<Bool(TRUE), Bool(FALSE)>>
    [] p = "tag" -> <<S(<<"a">>), S(<<"b">>), S(<<"c">>), Num(1)>>
    [] p = "extra" -> <<Num(1)>>

ComboKeys == {"a", "b", "x", "ok", "tag", "extra"}

ComboTables ==
  LET choices == {ch \in [ComboKeys -> 0..4] :
                    \A k \in ComboKeys : ch[k] <= Len(ComboSamples(k))}
  IN {Tab([k \in {x \in ComboKeys : ch[x] > 0} |-> ComboSamples(k)[ch[k]]]) :
        ch \in choices}

\* the combinators of union.spec.ts UnionHost, and others over the same
\* classes and predicates
ComboRules ==
  {Union(<<SchemaCtor("ADto"), SchemaCtor("BDto")>>),
   Union(<<SchemaFn(MustBeTable), SchemaCtor("ADto"), SchemaCtor("BDto")>>),
   Union(<<SchemaCtor("BDto"), SchemaCtor("OverlapA"), SchemaCtor("ADto")>>),
   Intersect(<<SchemaFn(MustBeTable), SchemaFn(OkMustBeTrue)>>),
   Intersect(<<SchemaCtor("ADto"), SchemaFn(OkMustBeTrue), SchemaCtor("OverlapA")>>),
   DiscriminatedUnion("tag",
     [s \in {<<"a">>, <<"b">>} |->
       IF s = <<"a">> THEN SchemaCtor("ADto") ELSE SchemaCtor("BDto")]),
   DiscriminatedUnion("x", [s \in {<<"h", "i">>} |-> SchemaCtor("OverlapA")])}

\* a rule and a value before the rule is applied to the value; order is the
\* order in which pairs(value) enumerates the keys when the rule asks
Pending(fn, arg, order) ==
  [done |-> FALSE, fn |-> fn, arg |-> arg, order |-> order, res |-> Pass, tried |-> <<>>]

\* the tuples and arrays given to IsTuple and ArrayElements: every array of
\* up to MaxSlots elements, each a number or a string
MaxSlots == 3

Arrays ==
  {Table([k \in {Num(i) : i \in 1..n} |-> el[k.n]]) :
     n \in 0..MaxSlots, el \in [1..MaxSlots -> {Num(1), S(<<"x">>)}]}

\* object.spec.ts ObjectDto.nums and ObjectDto.pair, and a tuple of three
ArrayRules ==
  {ArrayElements(MustBe("num", "must be number"), "bad elements"),
   IsTuple(<<MustBe("str", "must be string"), MustBe("num", "must be number")>>),
   IsTuple(<<MustBe("num", "must be number"), MustBe("num", "must be number"),
             MustBe("str", "must be string")>>)}

\* the records, maps and sets given to the entry rules: every table over a
\* lowercase key, an uppercase key and a numeric key
EntryKeys == {S(<<"a">>), S(<<"B">>), Num(5)}

EntryValues == {Num(1), S(<<"x">>), Bool(TRUE)}

EntryTables == UNION {{Table(e) : e \in [ks -> EntryValues]} : ks \in SUBSET EntryKeys}

\* the orders in which pairs(t) may enumerate the keys of t
Enumerations(t) ==
  {o \in [1..Cardinality(DOMAIN t.e) -> DOMAIN t.e] :
     \A i, j \in DOMAIN o : o[i] = o[j] => i = j}

\* collections.spec.ts CollectionsDto.rec2, map2 and set2
EntryRules ==
  {RecordEntries(LowerKey, MustBe("num", "must be number"), "rec invalid"),
   MapEntries(MustBe("str", "key must be string"), MustBe("num", "value must be number"),
              "map invalid"),
   MapEntries(NoValidator, MustBe("num", "value must be number"), "map invalid"),
   SetElements(MustBe("str", "must be string"), "set invalid")}

\* the values given to IsArray: every table over integer keys around 1, a
\* key that is no integer and a string key, with values that include false
SlotKeys == {Num(0 - 1), Num(0), Num(1), Num(2), Num(3), Half(1), S(<<"f", "o", "o">>)}

SlotValues == {S(<<"a">>), Bool(FALSE)}

SlotTables == UNION {{Table(e) : e \in [ks -> SlotValues]} : ks \in SUBSET SlotKeys}

NonTables == {Nil, S(<<"s">>), Num(1), Bool(TRUE)}

\* "must be a success status"
SuccessStatus ==
  S(<<"m", "u", "s", "t", " ", "b", "e", " ", "a", " ", "s", "u", "c", "c", "e", "s", "s",
      " ", "s", "t", "a", "t", "u", "s">>)

\* the rules of the examples of IsLiteral: Vehicle.kind, Flags.enabled and
\* HttpStatus.status
Vehicle ==
  IsLiteral(<<S(<<"c", "a", "r">>), S(<<"b", "i", "k", "e">>), S(<<"p", "l", "a", "n", "e">>)>>)

Flags == IsLiteral(<<Bool(TRUE), Bool(FALSE)>>)

HttpStatus == IsLiteral(<<Num(200), Num(201), Num(204), SuccessStatus>>)

LiteralRules == {Vehicle, Flags, HttpStatus, IsLiteral(<<Num(1)>>)}

\* the values given to the literal rules: the arguments of the factories,
\* values of each type that are no argument, and the strings that spell a
\* number or a boolean
LiteralValues ==
  {Num(200), Num(201), Num(204), Num(1), Num(404), SuccessStatus, S(<<"c", "a", "r">>),
   S(<<"b", "i", "k", "e">>), S(<<"2", "0", "0">>), S(<<"1">>), S(<<"t", "r", "u", "e">>),
   S(<<>>), Bool(TRUE), Bool(FALSE), Nil, Tab(EmptyTable)}

\* the templates of the examples of IsTemplateLiteral, one with a token
\* that is no placeholder and one with magic characters
FlagTemplate == <<"f", "l", "a", "g", ":", "$", "{", "b", "o", "o", "l", "e", "a", "n", "}">>

UserTemplate == <<"u", "s", "e", "r", ":", "$", "{", "n", "u", "m", "b", "e", "r", "}">>

ZoneTemplate == <<"z", "o", "n", "e", ":", "$", "{", "i", "n", "t", "}", ":", "$", "{", "s", "t", "r", "i", "n", "g", "}">>

UuidTemplate == <<"i", "d", ":", "$", "{", "u", "u", "i", "d", "}">>

DottedTemplate == <<"a", ".", "b", "(", "$", "{", "i", "n", "t">>

TemplateRules ==
  {IsTemplateLiteral(t) :
     t \in {FlagTemplate, UserTemplate, ZoneTemplate, UuidTemplate, DottedTemplate}}

\* the strings given to the template rules, and values that are no string
TemplateValues ==
  {S(<<"f", "l", "a", "g", ":", "t", "r", "u", "e">>),
   S(<<"f", "l", "a", "g", ":", "f", "a", "l", "s", "e">>),
   S(<<"f", "l", "a", "g", ":", "1">>),
   S(<<"f", "l", "a", "g", ":", "0">>),
   S(<<"f", "l", "a", "g", ":", "t", "r", "u", "e", "|", "f", "a", "l", "s", "e", "|", "1", "|", "0">>),
   S(<<"f", "l", "a", "g", ":">>),
   S(<<"f", "l", "a", "g", ":", "y", "e", "s">>),
   S(<<"f", "l", "a", "g", ":", "t", "r", "u", "e", "1">>),
   S(<<"x", "f", "l", "a", "g", ":", "0">>),
   S(<<"f", "l", "a", "g", ":", "(", "t", "r", "u", "e", ")">>),
   S(<<"u", "s", "e", "r", ":", "1", "2", "3">>),
   S(<<"u", "s", "e", "r", ":", "-", "5">>),
   S(<<"u", "s", "e", "r", ":", "4", "2", ".", "5">>),
   S(<<"u", "s", "e", "r", ":", "1", ".">>),
   S(<<"u", "s", "e", "r", ":">>),
   S(<<"u", "s", "e", "r", ":", "a">>),
   S(<<"u", "s", "e", "r", ":", "1", ".", "2", ".", "3">>),
   S(<<"u", "s", "e", "r", ":", "-", "-", "1">>),
   S(<<"z", "o", "n", "e", ":", "1", "2", ":", "D">>),
   S(<<"z", "o", "n", "e", ":", "1", "2", ":">>),
   S(<<"z", "o", "n", "e", ":", "x", ":", "D">>),
   S(<<"z", "o", "n", "e", ":", "-", "3", ":", "a", ":", "b">>),
   S(<<"i", "d", ":", "$", "{", "u", "u", "i", "d", "}">>),
   S(<<"i", "d", ":", "7">>),
   S(<<"a", ".", "b", "(", "$", "{", "i", "n", "t">>),
   S(<<"a", "x", "b", "(", "$", "{", "i", "n", "t">>),
   S(<<"a", ".", "b", "(", "5">>),
   S(<<>>)}
  \cup {Nil, Num(1), Bool(TRUE)}

\* collections.spec.ts StringDto.s and NumberDto.n, and the bounds of
\* PipelineDto and LabelDto
BoundRules == {Min(0), Max(10), Min(10), Max(0), MinLength(3), MaxLength(5), MinLength(2)}

\* the values given to the bounds rules: the integers from -2 to 12, the
\* numbers half-way between them, the strings of up to 7 characters, and
\* values that are neither
BoundValues ==
  {Num(n) : n \in (0 - 2)..12} \cup {Half(n) : n \in (0 - 2)..11}
  \cup {S([i \in 1..n |-> "a"]) : n \in 0..7}
  \cup {Nil, Bool(TRUE), Tab(EmptyTable)}

\* the values given to IsRecord and IsMap: every table over two array
\* indexes, a key that is no integer and two string keys, the table with
\* no entries among them
ShapeKeys == {Num(1), Num(2), Half(1), S(<<"a">>), S(<<"b">>)}

ShapeTables == {Table([k \in ks |-> Num(1)]) : ks \in SUBSET ShapeKeys}

Trials ==
  {Pending(IsArray, arg, <<>>) : arg \in SlotTables \cup NonTables}
  \cup {Pending(fn, arg, <<>>) : fn \in {IsRecord, IsMap}, arg \in ShapeTables \cup NonTables}
  \cup {Pending(fn, arg, <<>>) : fn \in BoundRules, arg \in BoundValues}
  \cup {Pending(fn, arg, <<>>) : fn \in TemplateRules, arg \in TemplateValues}
  \cup {Pending(fn, arg, <<>>) : fn \in LiteralRules, arg \in LiteralValues}
  \cup {Pending(fn, arg, <<>>) : fn \in ComboRules,
                            arg \in ComboTables \cup {Nil, S(<<"s">>)}}
  \cup {Pending(fn, arg, <<>>) : fn \in ArrayRules, arg \in Arrays \cup {Nil, S(<<"s">>)}}
  \cup UNION {{Pending(fn, arg, o) : fn \in EntryRules, o \in Enumerations(arg)} :
               arg \in EntryTables}
  \cup {Pending(fn, arg, <<>>) : fn \in EntryRules, arg \in {Nil, S(<<"s">>)}}

\* the class that carries the rule
RuleHost == "XorHost"

RuleInit ==
  /\ cls = RuleHost
  /\ target = [id |-> 1, fields |-> NewInstance]
  /\ nextId = 2
  /\ calls = 0
  /\ last = Last("new", <<>>, <<>>, target, TRUE, <<>>, <<>>, NoEntity, "none")
  /\ heap = NoHeap
  /\ trial \in Trials

\* const msg = fn(value, ctx)
Apply ==
  /\ ~trial.done
  /\ LET r == ApplyRule(trial.fn, trial.arg,
                        [object |-> cls, property |-> "v", value |-> trial.arg],
                        trial.order)
     IN trial' = [trial EXCEPT !.done = TRUE, !.res = r.res, !.tried = r.tried]
  /\ UNCHANGED <<cls, target, nextId, calls, last, heap>>

RuleNext == Apply

RuleSpec == RuleInit /\ [][RuleNext]_vars

(***************************************************************************)
(* Tables as objects (validators/coercion.ts, deepFreeze and               *)
(* Coerce.Readonly).  A table has an identity, a frozen flag and entries;  *)
(* a value that is a table is a reference to it.  heap.strict tells which  *)
(* table.freeze the build has: one that raises on a table that is frozen   *)
(* already, or one that leaves such a table as it is.                      *)
(***************************************************************************)
TableIds == 1..3

HeapKeys == <<"a", "b">>

Ref(id) == [t |-> "tab", id |-> id]

\* what a table of the heap may hold under a key, and what is written
HeapValues == {Num(1)} \cup {Ref(id) : id \in TableIds}

\* the orders in which pairs() may enumerate the keys of each table
PairsOrders == [TableIds -> {<<1, 2>>, <<2, 1>>}]

\* a traversal in progress: the tables seen, the tables frozen so far,
\* whether table.freeze has raised, the tables whose loop has been entered,
\* in order, and the number of calls that returned at seen.has(obj)
Walk(seen, frozen, raised) ==
  [seen |-> seen, frozen |-> frozen, raised |-> raised, entered |-> <<>>, skipped |-> 0]

\* table.freeze(obj)
freeze(h, id, w) ==
  IF h.strict /\ h.tab[id].frozen THEN [w EXCEPT !.raised = TRUE]
  ELSE [w EXCEPT !.frozen = @ \cup {id}]

\* deepFreeze that freezes obj and the tables it holds, and goes no deeper
RECURSIVE deepFreeze_oneLevel(_, _, _, _, _)
deepFreeze_oneLevel(h, id, i, w, ord) ==
  IF w.raised THEN w
  ELSE IF i = 0 /\ id \in w.seen THEN w
  ELSE IF i = 0 THEN deepFreeze_oneLevel(h, id, 1, [w EXCEPT !.seen = @ \cup {id}], ord)
  ELSE IF i > Len(HeapKeys) THEN freeze(h, id, w)
  ELSE LET v == h.tab[id].e[HeapKeys[ord[id][i]]]
       IN IF ~typeIs(v, "tab") \/ v.id \in w.seen
            THEN deepFreeze_oneLevel(h, id, i + 1, w, ord)
            ELSE deepFreeze_oneLevel(h, id, i + 1,
                   freeze(h, v.id, [w EXCEPT !.seen = @ \cup {v.id}]), ord)

\* deepFreeze whose calls each work on a copy of seen, so that what a call
\* adds is not known to the calls made after it returns
RECURSIVE deepFreeze_ownSeen(_, _, _, _, _)
deepFreeze_ownSeen(h, id, i, w, ord) ==
  IF w.raised THEN w
  ELSE IF i = 0 /\ id \in w.seen THEN [w EXCEPT !.skipped = @ + 1]
  ELSE IF i = 0
    THEN deepFreeze_ownSeen(h, id, 1,
           [w EXCEPT !.seen = @ \cup {id}, !.entered = Append(@, id)], ord)
  ELSE IF i > Len(HeapKeys) THEN freeze(h, id, w)
  ELSE LET v == h.tab[id].e[HeapKeys[ord[id][i]]]
       IN IF ~typeIs(v, "tab")
            THEN deepFreeze_ownSeen(h, id, i + 1, w, ord)
            ELSE deepFreeze_ownSeen(h, id, i + 1,
                   [deepFreeze_ownSeen(h, v.id, 0, w, ord) EXCEPT !.seen = w.seen], ord)

\* deepFreeze(obj, seen): i = 0 is the entry of the call, i in 1..2 the
\* loop over pairs(obj) at its i-th entry, and past the last entry
\* table.freeze(obj).  The loop reads the value of an entry and never its
\* key; the entries under table keys hold true, so the loop passes over
\* them at `continue`
RECURSIVE deepFreeze(_, _, _, _, _)
deepFreeze(h, id, i, w, ord) ==
  IF w.raised THEN w
  ELSE IF i = 0 /\ id \in w.seen THEN [w EXCEPT !.skipped = @ + 1]
  ELSE IF i = 0
    THEN deepFreeze(h, id, 1,
           [w EXCEPT !.seen = @ \cup {id}, !.entered = Append(@, id)], ord)
  ELSE IF i > Len(HeapKeys) THEN freeze(h, id, w)
  ELSE LET v == h.tab[id].e[HeapKeys[ord[id][i]]]
       IN IF ~typeIs(v, "tab")
            THEN deepFreeze(h, id, i + 1, w, ord)
            ELSE deepFreeze(h, id, i + 1, deepFreeze(h, v.id, 0, w, ord), ord)

CoerceReadonlyOf == [k |-> "Readonly", message |-> Msg("could not coerce to readonly")]

\* the heap after a traversal
Frozen(h, w) ==
  [h EXCEPT !.tab = [id \in TableIds |->
                       [h.tab[id] EXCEPT !.frozen = @ \/ id \in w.frozen]]]

\* the coercer that Coerce.Readonly registers: its result (Raised when
\* table.freeze raised), the heap it leaves and the traversal it made
CoerceReadonly(message, value, h, ord) ==
  IF isNil(value) THEN [res |-> Ok(value), heap |-> h, walk |-> Walk({}, {}, FALSE)]
  ELSE IF ~typeIs(value, "tab")
    THEN [res |-> Fail(message), heap |-> h, walk |-> Walk({}, {}, FALSE)]
  ELSE LET w == deepFreeze(h, value.id, 0, Walk({}, {}, FALSE), ord)
       IN [res |-> IF w.raised THEN Raised ELSE Ok(value), heap |-> Frozen(h, w),
           walk |-> w]

\* t[key] = v: raises on a frozen table and leaves it as it is
Stored(h, id, key, v) ==
  IF h.tab[id].frozen THEN [raised |-> TRUE, heap |-> h]
  ELSE [raised |-> FALSE, heap |-> [h EXCEPT !.tab[id].e[key] = v]]

\* t[k] = true for a table k, as Set.add(k) writes it: raises on a frozen
\* table and leaves it as it is
StoredKey(h, id, k) ==
  IF h.tab[id].frozen THEN [raised |-> TRUE, heap |-> h]
  ELSE [raised |-> FALSE, heap |-> [h EXCEPT !.tab[id].keys = @ \cup {k}]]

\* the entries of a table as pairs() enumerates them: the entries under the
\* string keys in the order ord, then the entries under table keys
Pairs(h, id, ord) ==
  [i \in 1..Len(HeapKeys) |->
     [k |-> S(<<HeapKeys[ord[id][i]]>>), v |-> h.tab[id].e[HeapKeys[ord[id][i]]]]]
  \o [i \in 1..Cardinality(h.tab[id].keys) |->
        [k |-> Ref(CHOOSE kid \in h.tab[id].keys :
                     Cardinality({x \in h.tab[id].keys : x < kid}) = i - 1),
         v |-> Bool(TRUE)]]

\* isDeepFrozen(obj, seen): c holds seen and whether no call has returned
\* false yet; i = 0 is the entry of the call, i >= 1 the loop over
\* pairs(obj) at its i-th entry
RECURSIVE isDeepFrozen(_, _, _, _, _)
isDeepFrozen(h, id, i, c, ord) ==
  IF ~c.ok THEN c
  ELSE IF i = 0 /\ id \in c.seen THEN c
  ELSE IF i = 0 /\ ~h.tab[id].frozen THEN [seen |-> c.seen \cup {id}, ok |-> FALSE]
  ELSE IF i = 0 THEN isDeepFrozen(h, id, 1, [c EXCEPT !.seen = @ \cup {id}], ord)
  ELSE IF i > Len(Pairs(h, id, ord)) THEN c
  ELSE LET entry == Pairs(h, id, ord)[i]
           afterKey == IF typeIs(entry.k, "tab")
                         THEN isDeepFrozen(h, entry.k.id, 0, c, ord) ELSE c
           afterValue == IF typeIs(entry.v, "tab")
                           THEN isDeepFrozen(h, entry.v.id, 0, afterKey, ord)
                           ELSE afterKey
       IN isDeepFrozen(h, id, i + 1, afterValue, ord)

IsReadonlyOf == [k |-> "IsReadonly", message |-> Msg("must be frozen")]

\* the body of the rule that IsReadonly(message) registers
IsReadonlyRule(message, value, h, ord) ==
  IF isNil(value) THEN Pass
  ELSE IF ~typeIs(value, "tab") THEN Fail(message)
  ELSE IF isDeepFrozen(h, value.id, 0, [seen |-> {}, ok |-> TRUE], ord).ok THEN Pass
  ELSE Fail(message)

\* the tables of a test before anything is frozen: { a: 1, b: 1 }
FreshTable == [frozen |-> FALSE, e |-> [key \in {"a", "b"} |-> Num(1)], keys |-> {}]

\* the number of operations on the heap that a run makes
MaxOps == 4

\* the last operation on the heap
HeapOp(k, arg, res, walk) ==
  [done |-> TRUE, fn |-> [k |-> k], arg |-> arg, res |-> res, walk |-> walk]

HeapInit ==
  /\ cls = RuleHost
  /\ target = [id |-> 1, fields |-> NewInstance]
  /\ nextId = 2
  /\ calls = 0
  /\ last = Last("new", <<>>, <<>>, target, TRUE, <<>>, <<>>, NoEntity, "none")
  /\ trial = NoTrial
  /\ \E strict \in BOOLEAN : heap = [strict |-> strict, tab |-> [id \in TableIds |-> FreshTable]]

\* (dto.data.nested.arr as unknown as number[])[0] = 999, and the writes
\* that build the tables
Write ==
  \E id \in TableIds, key \in {"a", "b"}, v \in HeapValues :
    LET r == Stored(heap, id, key, v)
    IN /\ calls < MaxOps
       /\ calls' = calls + 1
       /\ heap' = r.heap
       /\ trial' = HeapOp("Write", Ref(id), IF r.raised THEN Raised ELSE Pass,
                           Walk({}, {}, FALSE))
       /\ UNCHANGED <<cls, target, nextId, last>>

\* const res = coercer(value, ctx) for the coercer of Coerce.Readonly()
Readonly ==
  \E value \in HeapValues \cup {Nil}, ord \in PairsOrders :
    LET r == CoerceReadonly(CoerceReadonlyOf.message, value, heap, ord)
    IN /\ calls < MaxOps
       /\ calls' = calls + 1
       /\ heap' = r.heap
       /\ trial' = HeapOp("Readonly", value, r.res, r.walk)
       /\ UNCHANGED <<cls, target, nextId, last>>

\* set.add(k) for a table k, building a Set or a Map keyed by tables
WriteKey ==
  \E id \in TableIds, k \in TableIds :
    LET r == StoredKey(heap, id, k)
    IN /\ calls < MaxOps
       /\ calls' = calls + 1
       /\ heap' = r.heap
       /\ trial' = HeapOp("WriteKey", Ref(id), IF r.raised THEN Raised ELSE Pass,
                           Walk({}, {}, FALSE))
       /\ UNCHANGED <<cls, target, nextId, last>>

\* const msg = fn(value, ctx) for the rule of IsReadonly()
IsReadonly ==
  \E value \in HeapValues \cup {Nil}, ord \in PairsOrders :
    /\ calls < MaxOps
    /\ calls' = calls + 1
    /\ trial' = HeapOp("IsReadonly", value,
                        IsReadonlyRule(IsReadonlyOf.message, value, heap, ord),
                        Walk({}, {}, FALSE))
    /\ UNCHANGED <<cls, target, nextId, last, heap>>

HeapNext == Write \/ Readonly

HeapSpec == HeapInit /\ [][HeapNext]_vars

\* the heap with tables among the keys of tables, and the rule of
\* IsReadonly applied to what is on it
KeyedNext == Write \/ WriteKey \/ Readonly \/ IsReadonly

KeyedSpec == HeapInit /\ [][KeyedNext]_vars

(***************************************************************************)
(* Properties.                                                             *)
(***************************************************************************)
\* the last operation ran parseInto (directly, or inside from)
Parsed == last.op \in {"parseInto", "from"}

\* the last operation ran the per-field pipeline
Piped == last.op \in {"validate", "parseInto", "from"}

\* the properties of the class that take part in the pipeline
Participating == {p \in getAllowedKeys(cls) : hasMarker(cls, p)}

\* the keys of the last plain bag that the class does not declare
UnknownOf(plain) == (DOMAIN plain) \ getAllowedKeys(cls)

\* the value the last operation read for a property
InputOf(p) == IF last.op = "validate" THEN Get(last.pre.fields, p) ELSE Get(last.plain, p)

\* the calls the last operation made for a property, in order
CallsOf(p) == SelectSeq(last.log, LAMBDA e : e.property = p)

PhaseCalls(p, phase) == SelectSeq(last.log, LAMBDA e : e.property = p /\ e.phase = phase)

ErrorProps == {last.errors[i].property : i \in 1..Len(last.errors)}

\* C1: when parseInto returns a failure, every field of target has the value
\* it had before the call
ParseFailureLeavesTarget ==
  (last.op = "parseInto" /\ ~last.ok) => target = last.pre

\* a failed parseInto in which a field that passed its own pipeline was given
\* a value other than the one target holds
ParseFailureLeavesTargetWitness ==
  /\ last.op = "parseInto"
  /\ ~last.ok
  /\ UnknownOf(last.plain) = {}
  /\ \E p \in Participating \ ErrorProps :
       /\ p \in DOMAIN last.plain
       /\ last.plain[p] # Get(last.pre.fields, p)
       /\ target.fields = last.pre.fields
       /\ last.pre.fields # <<>>


\* the value a field's coercer gives for v (v itself without a coercer)
CoercedValue(p, v) ==
  LET m == ClassDefs[cls].meta[p]
      res == RunCoercer(m.coercer, v, [object |-> cls, property |-> p, value |-> v])
  IN IF m.coercer = NoCoercer THEN v ELSE IF res.ok THEN res.value ELSE Raised

\* the transforms of a field applied one after the other, in registration order
RECURSIVE ApplyTransforms(_, _, _)
ApplyTransforms(transforms, p, v) ==
  IF transforms = <<>> THEN v
  ELSE LET res == RunTransform(Head(transforms), v,
                               [object |-> cls, property |-> p, value |-> v])
       IN IF res.ok THEN ApplyTransforms(Tail(transforms), p, res.value) ELSE Raised

CoerceThenTransform(p, v) ==
  ApplyTransforms(ClassDefs[cls].meta[p].transforms, p, CoercedValue(p, v))

\* C2 as stated: after a successful parseInto on a fresh target the returned
\* value is the target and every participating field holds its coercer and
\* then its transforms applied to plain's value (nothing is required of a
\* field for which that application yields no value)
ParseSuccessAppliesCoercerAndTransforms ==
  (Parsed /\ last.ok /\ last.pre.fields = NewInstance) =>
    /\ last.value = target
    /\ target.id = last.pre.id
    /\ \A p \in Participating :
         \/ CoerceThenTransform(p, Get(last.plain, p)) = Raised
         \/ Get(target.fields, p) = CoerceThenTransform(p, Get(last.plain, p))

\* C2 amended: the same, except that an optional field whose coerced value is
\* absent stays absent, its transforms not being applied
ParseSuccessAppliesPipeline ==
  (Parsed /\ last.ok /\ last.pre.fields = NewInstance) =>
    /\ last.value = target
    /\ target.id = last.pre.id
    /\ \A p \in Participating :
         Get(target.fields, p) =
           IF getFlag(cls, META_OPT_KEY, p) /\ isNil(CoercedValue(p, Get(last.plain, p)))
             THEN Nil
             ELSE CoerceThenTransform(p, Get(last.plain, p))

\* parseInto(new PipelineDto(), {n: " 10 "}) has succeeded and n is 1010
ParseSuccessAppliesPipelineWitness ==
  /\ last.op = "parseInto"
  /\ last.ok
  /\ last.pre.fields = NewInstance
  /\ cls = "PipelineDto"
  /\ last.plain = [k \in {"n"} |-> Str(<<" ", "1", "0", " ">>)]
  /\ target.fields = [k \in {"n"} |-> Num(1010)]


SeenByRules(p) ==
  IF PhaseCalls(p, "coerce") = <<>> THEN InputOf(p)
  ELSE PhaseCalls(p, "coerce")[1].res.value

LeftValid == Piped /\ last.ok

\* what running validate again on the entity gives
Again == validate(cls, target.fields)

\* the properties for which running validate again returns an entry
AgainErrorProps == {Again.errors[i].property : i \in 1..Len(Again.errors)}

\* every transform of the field is one of Trim, Lowercase and Uppercase
StringTransformsOnly(p) ==
  \A i \in 1..Len(ClassDefs[cls].meta[p].transforms) :
    ClassDefs[cls].meta[p].transforms[i].k \in {"Trim", "Lowercase", "Uppercase"}

\* the field is skipped as optional and absent, or every rule accepts the
\* value it holds
RulesAccept(p) ==
  LET m == ClassDefs[cls].meta[p]
      v == Get(target.fields, p)
      ctx == [object |-> cls, property |-> p, value |-> v]
  IN \/ getFlag(cls, META_OPT_KEY, p) /\ isNil(v)
     \/ \A i \in 1..Len(m.validators) : RunRule(m.validators[i], v, ctx).ok

DefaultCalls == SelectSeq(last.log, LAMBDA e : e.phase = "coerce" /\ e.fn.k = "Default")

\* C6: a Coerce.Default coercer returns the default when the field is marked
\* optional and the incoming value is absent, and returns the incoming
\* value unchanged in every other case: the field is not marked optional
\* (even when the value is absent), or the value is present
DefaultOnlyWhenOptionalAndAbsent ==
  \A i \in 1..Len(DefaultCalls) :
    LET e == DefaultCalls[i]
    IN e.res = Ok(IF getFlag(cls, META_OPT_KEY, e.property) /\ isNil(e.arg)
                    THEN e.fn.valueOrFactory
                    ELSE e.arg)

\* a StockDto was given neither count nor level: the optional count got
\* its default 3, the required level stayed absent although it has a default
DefaultOnlyWhenOptionalAndAbsentWitness ==
  /\ cls = "StockDto"
  /\ Piped
  /\ \E i \in 1..Len(DefaultCalls) :
       /\ DefaultCalls[i].property = "count"
       /\ isNil(DefaultCalls[i].arg)
       /\ DefaultCalls[i].res = Ok(Num(3))
  /\ \E i \in 1..Len(DefaultCalls) :
       /\ DefaultCalls[i].property = "level"
       /\ isNil(DefaultCalls[i].arg)
       /\ DefaultCalls[i].res = Ok(Nil)


\* the last operation went through the per-field loop
RanFields == Piped /\ (Parsed => UnknownOf(last.plain) = {})

\* the field's coercer, if it has one, was invoked and returned a value
Coerced(p) ==
  IF ClassDefs[cls].meta[p].coercer = NoCoercer
    THEN PhaseCalls(p, "coerce") = <<>>
    ELSE Len(PhaseCalls(p, "coerce")) = 1 /\ PhaseCalls(p, "coerce")[1].res.ok

\* C7: for a field marked optional the coercer, if any, is always invoked;
\* when the value is absent after coercion none of the field's rules and
\* transforms is invoked and no error is recorded for the field; when it is
\* present every rule is invoked on it and, if all pass, the transforms
\* start, as for a required field
OptionalAbsentSkipsRulesAndTransforms ==
  RanFields =>
    \A p \in Participating :
      LET m == ClassDefs[cls].meta[p]
          va == PhaseCalls(p, "validate")
          tr == PhaseCalls(p, "transform")
      IN getFlag(cls, META_OPT_KEY, p) =>
           /\ m.coercer # NoCoercer =>
                /\ Len(PhaseCalls(p, "coerce")) = 1
                /\ PhaseCalls(p, "coerce")[1].fn = m.coercer
                /\ PhaseCalls(p, "coerce")[1].arg = InputOf(p)
           /\ (Coerced(p) /\ isNil(SeenByRules(p))) =>
                /\ va = <<>>
                /\ tr = <<>>
                /\ p \notin ErrorProps
           /\ (Coerced(p) /\ ~isNil(SeenByRules(p))) =>
                /\ Len(va) = Len(m.validators)
                /\ \A i \in 1..Len(va) :
                     va[i].fn = m.validators[i] /\ va[i].arg = SeenByRules(p)
                /\ ((\A i \in 1..Len(va) : va[i].res.ok) /\ m.transforms # <<>>) =>
                     tr # <<>> /\ tr[1].fn = m.transforms[1]
                /\ (\E i \in 1..Len(va) : ~va[i].res.ok) => p \in ErrorProps

\* a LabelDto without a code went through the pipeline: the Number coercer
\* of the optional code was invoked on the absent value, its rule and its
\* transforms were not, and code has no error
OptionalAbsentSkipsRulesAndTransformsWitness ==
  /\ RanFields
  /\ cls = "LabelDto"
  /\ Len(PhaseCalls("code", "coerce")) = 1
  /\ isNil(PhaseCalls("code", "coerce")[1].arg)
  /\ PhaseCalls("code", "coerce")[1].res = Ok(Nil)
  /\ PhaseCalls("code", "validate") = <<>>
  /\ PhaseCalls("code", "transform") = <<>>
  /\ "code" \notin ErrorProps
  /\ ClassDefs[cls].meta["code"].validators # <<>>


\* what the pipeline does for one field taken alone, on the values the last
\* operation was given: the calls it makes and the error it records, if any
Alone(p) ==
  IF last.op = "validate"
    THEN validateProperty(cls, p, [obj |-> last.pre.fields, errors |-> <<>>, log |-> <<>>])
    ELSE parseProperty(cls, p, [staged |-> last.plain, errors |-> <<>>, log |-> <<>>])

\* the errors of the fields taken alone, in the order of the enumeration
RECURSIVE ErrorsFrom(_)
ErrorsFrom(i) ==
  IF i > Len(getProperties(cls)) THEN <<>>
  ELSE Alone(getProperties(cls)[i]).errors \o ErrorsFrom(i + 1)

\* C8: validate and parseInto visit every participating field whatever
\* happened to the fields before it: the calls made for each field are those
\* the field's pipeline makes when taken alone, and the result holds the
\* error of every field that fails when taken alone, in the order in which
\* the fields are enumerated
FailureDoesNotStopOtherFields ==
  RanFields =>
    /\ \A p \in Participating : CallsOf(p) = Alone(p).log
    /\ last.errors = ErrorsFrom(1)

\* validate on an empty UserDto: hp, the first field enumerated, fails its
\* rules; lang is still coerced and name still reported
FailureDoesNotStopOtherFieldsWitness ==
  /\ last.op = "validate"
  /\ cls = "UserDto"
  /\ last.pre.fields = NewInstance
  /\ getProperties(cls) = <<"hp", "lang", "name">>
  /\ [i \in 1..Len(last.errors) |-> last.errors[i].property] = <<"hp", "name">>
  /\ Len(PhaseCalls("lang", "coerce")) = 1


\* what parseInto returns for the instance that from allocated
FromParse == parseInto(cls, last.pre, last.plain, last.order)

\* C9: from(plain) allocates a fresh instance; it resolves exactly when
\* parseInto(instance, plain) returns ok, and then with that instance, which
\* holds what parseInto committed and for which no rule returned a message;
\* when parseInto fails it rejects and the caller does not get the instance
FromResolvesOnlyWhenParsed ==
  last.op = "from" =>
    /\ last.pre = [id |-> nextId - 1, fields |-> NewInstance]
    /\ last.promise \in {"resolved", "rejected"}
    /\ (last.promise = "resolved") <=> FromParse.ok
    /\ last.promise = "resolved" =>
         /\ last.value = FromParse.target
         /\ last.value.id = last.pre.id
         /\ target = last.value
         /\ last.errors = <<>>
         /\ \A i \in 1..Len(last.log) : last.log[i].res.ok
    /\ last.promise = "rejected" =>
         /\ last.errors = FromParse.errors
         /\ last.errors # <<>>
         /\ last.value = NoEntity
         /\ target.id # last.pre.id

\* UserDto.from({name: "TEST", hp: "10"}) has resolved with a new instance
\* whose name is "test", whose hp is 10 and whose lang is the default "en"
FromResolvesOnlyWhenParsedWitness ==
  /\ last.op = "from"
  /\ cls = "UserDto"
  /\ last.promise = "resolved"
  /\ last.plain = [k \in {"hp", "name"} |->
                    IF k = "hp" THEN Str(<<"1", "0">>) ELSE Str(<<"T", "E", "S", "T">>)]
  /\ target.id = 2
  /\ target.fields = [k \in {"hp", "lang", "name"} |->
                       CASE k = "hp" -> Num(10)
                         [] k = "lang" -> Str(<<"e", "n">>)
                         [] k = "name" -> Str(<<"t", "e", "s", "t">>)]


\* the calls of an ExclusiveUnion rule that the last operation made
ExclusiveCalls ==
  SelectSeq(last.log, LAMBDA e : e.phase = "validate" /\ e.fn.k = "ExclusiveUnion")

\* what each schema of the rule of a call says of the value, taken alone
SchemaResults(e) ==
  [i \in 1..Len(e.fn.schemas) |->
    validateAgainstSchema(e.fn.schemas[i], e.arg,
                          [object |-> cls, property |-> e.property, value |-> e.arg], {})]

MatchCount(e) == Cardinality({i \in 1..Len(e.fn.schemas) : SchemaResults(e)[i].ok})

\* C10: ExclusiveUnion accepts a present value exactly when exactly one of
\* its schemas accepts it; with several matches the message carries the
\* number of all the schemas that match, with none it carries the reason
\* of every schema, in order
ExclusiveUnionExactlyOne ==
  \A n \in 1..Len(ExclusiveCalls) :
    LET e == ExclusiveCalls[n]
    IN IF isNil(e.arg) THEN e.res = Pass
       ELSE /\ e.res.ok <=> MatchCount(e) = 1
            /\ MatchCount(e) > 1 =>
                 e.res = Fail(MsgN("must match exactly one variant (matched ", MatchCount(e)))
            /\ MatchCount(e) = 0 =>
                 /\ e.res = Fail(MsgJoin("must match exactly one variant (matched none: ",
                                         [i \in 1..Len(e.fn.schemas) |->
                                           SchemaResults(e)[i].message]))
                 /\ Len(e.res.message.parts) = Len(e.fn.schemas)

\* an XorHost whose v is {x: "hi"}, which the second, third and fourth of
\* the four schemas accept, and whose x is {a: "hi"}, which ADto accepts
\* and BDto does not: v fails with a count of 3, x passes
ExclusiveUnionExactlyOneWitness ==
  /\ cls = "XorHost"
  /\ RanFields
  /\ Len(PhaseCalls("v", "validate")) = 1
  /\ PhaseCalls("v", "validate")[1].arg = Tab([k \in {"x"} |-> Str(<<"h", "i">>)])
  /\ PhaseCalls("v", "validate")[1].res =
       Fail(MsgN("must match exactly one variant (matched ", 3))
  /\ Len(PhaseCalls("x", "validate")) = 1
  /\ PhaseCalls("x", "validate")[1].arg = Tab([k \in {"a"} |-> Str(<<"h", "i">>)])
  /\ PhaseCalls("x", "validate")[1].res = Pass


\* the context in which the rule of the trial is called
TrialCtx == [object |-> cls, property |-> "v", value |-> trial.arg]

\* what the i-th schema of the rule of the trial says of the value, taken alone
SchemaAlone(i) == validateAgainstSchema(trial.fn.schemas[i], trial.arg, TrialCtx, {})

\* the schemas of the rule of the trial that accept the value
Matching == {i \in 1..Len(trial.fn.schemas) : SchemaAlone(i).ok}

\* the rule k has been applied to a present value
Applied(k) == trial.done /\ trial.fn.k = k /\ ~isNil(trial.arg)

\* the rule of kind k has been applied to a value, present or absent
Ran(k) == trial.done /\ trial.fn.k = k

\* C11: Union accepts a present value exactly when at least one of its
\* schemas accepts it; it evaluates its schemas in declared order up to the
\* first that accepts and none after it; when none accepts, its message
\* joins the reason of every schema in declared order
UnionFirstMatchWins ==
  Applied("Union") =>
    LET n == Len(trial.fn.schemas)
        stop == IF Matching = {} THEN n
                ELSE CHOOSE i \in Matching : \A j \in Matching : i <= j
    IN /\ trial.res.ok <=> Matching # {}
       /\ trial.tried = [i \in 1..stop |-> SchemaAlone(i)]
       /\ Matching = {} =>
            trial.res = Fail(MsgJoin("must match one of the union variants (",
                                     [i \in 1..n |-> SchemaAlone(i).message]))

\* Union(BDto, OverlapA, ADto) was applied to {x: "hi"}: BDto gave a reason,
\* OverlapA accepted, ADto was not evaluated although it would have refused
UnionFirstMatchWinsWitness ==
  /\ Applied("Union")
  /\ trial.fn.schemas = <<SchemaCtor("BDto"), SchemaCtor("OverlapA"), SchemaCtor("ADto")>>
  /\ trial.arg = Tab([k \in {"x"} |-> S(<<"h", "i">>)])
  /\ trial.res = Pass
  /\ Len(trial.tried) = 2
  /\ ~trial.tried[1].ok
  /\ ~SchemaAlone(3).ok



\* the reasons of the schemas of the trial that refuse the value, in declared order
Reasons ==
  LET n == Len(trial.fn.schemas)
      all == [i \in 1..n |-> SchemaAlone(i)]
  IN Messages(all)

\* C12: Intersect evaluates every one of its schemas, whatever the schemas
\* before it said; it accepts a present value exactly when every schema
\* accepts it, and on failure its one message carries the reason of every
\* schema that refuses
IntersectEvaluatesAll ==
  Applied("Intersect") =>
    /\ trial.tried = [i \in 1..Len(trial.fn.schemas) |-> SchemaAlone(i)]
    /\ trial.res.ok <=> Matching = 1..Len(trial.fn.schemas)
    /\ ~trial.res.ok =>
         /\ trial.res = Fail(MsgJoin("must satisfy all intersected schemas (", Reasons))
         /\ Len(Reasons) = Len(trial.fn.schemas) - Cardinality(Matching)

\* Intersect(ADto, ok-must-be-true, OverlapA) was applied to {ok: true}: the
\* first schema refused, the second was still evaluated and accepted, the
\* third refused, and the message carries two reasons
IntersectEvaluatesAllWitness ==
  /\ Applied("Intersect")
  /\ trial.fn.schemas = <<SchemaCtor("ADto"), SchemaFn(OkMustBeTrue), SchemaCtor("OverlapA")>>
  /\ trial.arg = Tab([k \in {"ok"} |-> Bool(TRUE)])
  /\ Len(trial.tried) = 3
  /\ ~trial.tried[1].ok
  /\ trial.tried[2].ok
  /\ ~trial.tried[3].ok
  /\ ~trial.res.ok
  /\ Len(trial.res.message.parts) = 2



\* the value of the trial without the discriminator key
WithoutTag ==
  Tab([k \in (DOMAIN trial.arg.f) \ {trial.fn.discriminator} |-> trial.arg.f[k]])

\* the value of the trial is a table whose discriminator is a string that
\* names a variant
TagSelects ==
  /\ typeIs(trial.arg, "tab")
  /\ typeIs(Get(trial.arg.f, trial.fn.discriminator), "str")
  /\ Get(trial.arg.f, trial.fn.discriminator).s \in DOMAIN trial.fn.map

\* the variant that the discriminator of the value selects
Variant == trial.fn.map[Get(trial.arg.f, trial.fn.discriminator).s]

\* no variant of the rule declares the discriminator as a property of its own
TagIsNoProperty ==
  \A s \in DOMAIN trial.fn.map :
    trial.fn.discriminator \notin getAllowedKeys(trial.fn.map[s].ctor)

\* C13: DiscriminatedUnion(tag, variantMap), whose variants do not declare
\* the tag themselves, accepts a present value exactly when it is a table
\* whose tag is a string key of variantMap and whose other keys, taken
\* without the tag, satisfy the selected variant; every such rule refuses
\* a table with a key other than the tag that the variant does not declare,
\* a table whose tag is missing, is not a string or names no variant, and a
\* value that is not a table
DiscriminatedUnionSelectsByTag ==
  Applied("DiscriminatedUnion") =>
    /\ TagIsNoProperty =>
         (trial.res.ok <=>
            (TagSelects /\ validateAgainstSchema(Variant, WithoutTag, TrialCtx, {}).ok))
    /\ ~typeIs(trial.arg, "tab") => trial.res = Fail(Msg("must be an object"))
    /\ (typeIs(trial.arg, "tab") /\ ~TagSelects) => trial.res = Fail(trial.fn.message)
    /\ (TagSelects /\ (DOMAIN WithoutTag.f) \ getAllowedKeys(Variant.ctor) # {}) =>
         ~trial.res.ok

\* DiscriminatedUnion("tag", {a: ADto, b: BDto}) has accepted {tag: "b", b: 5},
\* which BDto taken as a plain schema refuses for its key tag
DiscriminatedUnionSelectsByTagWitness ==
  /\ Applied("DiscriminatedUnion")
  /\ trial.fn.discriminator = "tag"
  /\ trial.arg = Tab([k \in {"tag", "b"} |-> IF k = "tag" THEN S(<<"b">>) ELSE Num(5)])
  /\ trial.res = Pass
  /\ ~validateAgainstSchema(SchemaCtor("BDto"), trial.arg, TrialCtx, {}).ok



\* what the validator of slot i of the tuple rule of the trial says of element i
Slot(i) == RunElement(trial.fn.validators[i], At(trial.arg, Num(i)))

\* the slots of the tuple rule of the trial whose validator refuses, in order
RECURSIVE FailingSlots(_)
FailingSlots(i) ==
  IF i > Len(trial.fn.validators) THEN <<>>
  ELSE (IF Slot(i).ok THEN <<>> ELSE <<i>>) \o FailingSlots(i + 1)

ElementRules == {"ArrayElements", "RecordEntries", "MapEntries", "SetElements"}

\* the value of the trial has the shape that lets the element rule of the
\* trial reach its loop
ReachesLoop ==
  CASE trial.fn.k = "ArrayElements" -> isArrayLikeTable(trial.arg)
    [] trial.fn.k = "RecordEntries" ->
         typeIs(trial.arg, "tab") /\ (isEmptyTable(trial.arg) \/ isNonArrayTable(trial.arg))
    [] OTHER -> isNonArrayTable(trial.arg)

\* every call the element rule of the trial makes when no call fails, in the
\* order of the indexes (array) or of the enumeration (record, map, set)
AllChecks ==
  CASE trial.fn.k = "ArrayElements" ->
         [i \in 1..size(trial.arg) |->
           Checked("at", Num(i), RunElement(trial.fn.elementValidator, At(trial.arg, Num(i))))]
    [] trial.fn.k = "RecordEntries" -> RecordChecks(trial.fn, trial.arg, trial.order)
    [] trial.fn.k = "MapEntries" -> MapChecks(trial.fn, trial.arg, trial.order)
    [] trial.fn.k = "SetElements" -> SetChecks(trial.fn, trial.arg, trial.order)

\* the keys or indexes that a sequence of calls is about
KeysOf(checks) == {checks[i].key : i \in 1..Len(checks)}

\* C14: on a value of the right length IsTuple calls the validator of every
\* slot and its message has one 'at i: reason' member for every slot that
\* fails, in order; ArrayElements, RecordEntries, MapEntries and SetElements
\* make their calls element after element (entry after entry in the order
\* of the enumeration), stop at the first call that fails and report that
\* one only
TupleAggregatesOthersStopAtFirst ==
  /\ (Applied("IsTuple") /\ isArrayLikeTable(trial.arg)
        /\ size(trial.arg) = Len(trial.fn.validators)) =>
       /\ trial.tried = [i \in 1..Len(trial.fn.validators) |-> Checked("at", Num(i), Slot(i))]
       /\ trial.res.ok <=> FailingSlots(1) = <<>>
       /\ ~trial.res.ok =>
            /\ trial.res.message.text = "must be a tuple of length "
            /\ trial.res.message.n = Len(trial.fn.validators)
            /\ trial.res.message.parts =
                 [j \in 1..Len(FailingSlots(1)) |->
                   <<"at", Num(FailingSlots(1)[j]), Slot(FailingSlots(1)[j]).message>>]
  /\ (trial.done /\ trial.fn.k \in ElementRules /\ ~isNil(trial.arg) /\ ReachesLoop) =>
       LET n == Len(trial.tried)
       IN /\ n <= Len(AllChecks)
          /\ trial.tried = SubSeq(AllChecks, 1, n)
          /\ \A i \in 1..(n - 1) : trial.tried[i].res.ok
          /\ trial.res.ok <=> (n = Len(AllChecks) /\ \A i \in 1..n : trial.tried[i].res.ok)
          /\ trial.res.ok => KeysOf(trial.tried) = DOMAIN trial.arg.e
          /\ ~trial.res.ok =>
               /\ ~trial.tried[n].res.ok
               /\ trial.res =
                    IF trial.tried[n].kind = "shape" THEN trial.tried[n].res
                    ELSE Fail([text |-> trial.fn.message, n |-> 0,
                               parts |-> <<trial.tried[n].kind, trial.tried[n].key,
                                           trial.tried[n].res.message>>])

\* IsTuple(string, number) was applied to [1, "x"]: both slots fail and the
\* message has the two members 'at 1: must be string', 'at 2: must be number'
TupleAggregatesOthersStopAtFirstWitness ==
  /\ Applied("IsTuple")
  /\ Len(trial.fn.validators) = 2
  /\ trial.arg = Table([k \in {Num(1), Num(2)} |-> IF k = Num(1) THEN Num(1) ELSE S(<<"x">>)])
  /\ Len(trial.tried) = 2
  /\ trial.res.message.parts =
       <<(<<"at", Num(1), Msg("must be string")>>), (<<"at", Num(2), Msg("must be number")>>)>>

\* C15: IsArray accepts a value exactly when it is a table whose keys are
\* the integers 1..n for some n >= 0; a table with a string key, with a key
\* that is no integer or is less than 1, or with a gap in its integer keys
\* is rejected, and so is every value that is no table.
IsArrayAcceptsContiguous ==
  Ran("IsArray") =>
    /\ trial.res.ok <=>
         /\ typeIs(trial.arg, "tab")
         /\ \E n \in 0..Cardinality(SlotKeys) :
              DOMAIN trial.arg.e = {Num(i) : i \in 1..n}
    /\ ~trial.res.ok => trial.res.message = IsArray.message

\* IsArray has rejected a table whose keys are integers >= 1 with a gap
IsArrayAcceptsContiguousWitness ==
  /\ Ran("IsArray")
  /\ typeIs(trial.arg, "tab")
  /\ DOMAIN trial.arg.e = {Num(1), Num(3)}
  /\ ~trial.res.ok

\* the tables that can be reached from the tables of set through values
RECURSIVE Reach(_, _)
Reach(h, set) ==
  LET next == set \cup {id \in TableIds :
                 \E holder \in set, key \in {"a", "b"} : h.tab[holder].e[key] = Ref(id)}
  IN IF next = set THEN set ELSE Reach(h, next)

\* C16: when Coerce.Readonly succeeds on a table, that table and every
\* table reachable from it through values, at any depth, is frozen and
\* holds what it held; a frozen table stays frozen and a write to it raises
\* and changes nothing; an absent value comes back as it is and a value
\* that is present and no table is rejected with the coercion message,
\* both without touching any table.
ReadonlyFreezesDeeply ==
  [][/\ trial'.fn.k = "Readonly" =>
          /\ isNil(trial'.arg) => trial'.res = Ok(Nil) /\ heap' = heap
          /\ ~isNil(trial'.arg) /\ ~typeIs(trial'.arg, "tab") =>
               trial'.res = Fail(CoerceReadonlyOf.message) /\ heap' = heap
          /\ typeIs(trial'.arg, "tab") =>
               /\ trial'.res \in {Ok(trial'.arg), Raised}
               /\ \A id \in TableIds : heap'.tab[id].e = heap.tab[id].e
               /\ trial'.res = Ok(trial'.arg) =>
                    \A id \in Reach(heap', {trial'.arg.id}) : heap'.tab[id].frozen
     /\ trial'.fn.k = "Write" /\ heap.tab[trial'.arg.id].frozen =>
          trial'.res = Raised /\ heap' = heap
     /\ \A id \in TableIds : heap.tab[id].frozen => heap'.tab[id] = heap.tab[id]
    ]_vars

\* table 1 holds table 2 and table 2 holds table 3, one Readonly froze all
\* three, and a write to table 3 has raised
ReadonlyFreezesDeeplyWitness ==
  /\ calls = 4
  /\ Applied("Write")
  /\ trial.arg = Ref(3)
  /\ trial.res = Raised
  /\ \E key \in {"a", "b"} : heap.tab[1].e[key] = Ref(2)
  /\ \A key \in {"a", "b"} : heap.tab[1].e[key] # Ref(3)
  /\ \E key \in {"a", "b"} : heap.tab[2].e[key] = Ref(3)
  /\ \A id \in TableIds : heap.tab[id].frozen

\* the field has a coercer, and the last operation invoked it and got a value
CoercerGave(p) ==
  /\ ClassDefs[cls].meta[p].coercer # NoCoercer
  /\ Len(PhaseCalls(p, "coerce")) = 1
  /\ PhaseCalls(p, "coerce")[1].res.ok

\* the value the field's coercer returned
CoercedTo(p) == PhaseCalls(p, "coerce")[1].res.value

\* one of the field's rules returned a message
RuleRejected(p) ==
  \E i \in 1..Len(PhaseCalls(p, "validate")) : ~PhaseCalls(p, "validate")[i].res.ok

\* v after the transforms that precede the first one that fails
RECURSIVE TransformedPrefix(_, _, _)
TransformedPrefix(transforms, p, v) ==
  IF transforms = <<>> THEN v
  ELSE LET res == RunTransform(Head(transforms), v,
                               [object |-> cls, property |-> p, value |-> v])
       IN IF res.ok THEN TransformedPrefix(Tail(transforms), p, res.value) ELSE v

\* C17 as stated: after validate a field whose coercer succeeded holds the
\* coerced value, whether its rules then passed or failed
ValidateLeavesCoercedValue ==
  last.op = "validate" =>
    \A p \in Participating :
      CoercerGave(p) => Get(target.fields, p) = CoercedTo(p)

\* C17 amended: after validate a field whose coercer succeeded holds the
\* coerced value when one of its rules failed, or when it is optional and
\* the coerced value is absent; when its rules passed it holds the coerced
\* value with the field's transforms applied, up to the first that fails
\* (the coerced value itself for a field without transforms)
ValidateWritesCoercedThenTransformed ==
  last.op = "validate" =>
    \A p \in Participating :
      CoercerGave(p) =>
        Get(target.fields, p) =
          IF RuleRejected(p) THEN CoercedTo(p)
          ELSE IF getFlag(cls, META_OPT_KEY, p) /\ isNil(CoercedTo(p)) THEN CoercedTo(p)
          ELSE TransformedPrefix(ClassDefs[cls].meta[p].transforms, p, CoercedTo(p))

\* validate on a PipelineDto whose n was "9": Min(10) has failed and n is 9
ValidateWritesCoercedThenTransformedWitness ==
  /\ last.op = "validate"
  /\ cls = "PipelineDto"
  /\ Get(last.pre.fields, "n") = S(<<"9">>)
  /\ CoercerGave("n")
  /\ RuleRejected("n")
  /\ "n" \in ErrorProps
  /\ Get(target.fields, "n") = Num(9)

\* the message that is the string v, character by character
Verbatim(v) == MsgJoin("", <<v.s>>)

\* C18: with IsLiteral(200, 201, 204, "must be a success status") the last
\* argument is the failure message and no accepted value: the rule passes
\* exactly for 200, 201 and 204 and returns that message for every other
\* value
LiteralLastStringIsMessage ==
  (Ran("IsLiteral") /\ trial.fn = HttpStatus) =>
    /\ trial.res.ok <=> trial.arg \in {Num(200), Num(201), Num(204)}
    /\ ~trial.res.ok => trial.res.message = Verbatim(SuccessStatus)

\* what the rule does instead: it passes for each of its four arguments,
\* the message string included, and otherwise returns the default message
\* that lists all four
LiteralAcceptsEveryArgument ==
  (Ran("IsLiteral") /\ trial.fn = HttpStatus) =>
    /\ trial.res.ok <=> trial.arg \in {Num(200), Num(201), Num(204), SuccessStatus}
    /\ ~trial.res.ok =>
         trial.res.message =
           MsgJoin("must be one of ",
                   <<<<"2", "0", "0">>, <<"2", "0", "1">>, <<"2", "0", "4">>,
                     <<"\"">> \o SuccessStatus.s \o <<"\"">>>>)

\* the strings that the template flag:${boolean} describes
FlagStrings ==
  {S(<<"f", "l", "a", "g", ":">> \o w) :
     w \in {<<"t", "r", "u", "e">>, <<"f", "a", "l", "s", "e">>, <<"1">>, <<"0">>}}

\* C19: IsTemplateLiteral("flag:${boolean}") accepts a value exactly when
\* it is the string flag: followed by one of true, false, 1, 0, so
\* "flag:true" and "flag:0" pass and every other string is rejected
TemplateBooleanAcceptsFlags ==
  (Ran("IsTemplateLiteral") /\ trial.fn.template = FlagTemplate) =>
    (trial.res.ok <=> trial.arg \in FlagStrings)

\* what the rule does instead: the only string it accepts is the one that
\* spells the alternatives with their bars, flag:true|false|1|0
TemplateBooleanAcceptsBarsOnly ==
  (Ran("IsTemplateLiteral") /\ trial.fn.template = FlagTemplate) =>
    (trial.res.ok <=>
       trial.arg = S(<<"f", "l", "a", "g", ":", "t", "r", "u", "e", "|", "f", "a", "l",
                       "s", "e", "|", "1", "|", "0">>))

\* twice the number v, which is an integer or an integer and a half
Twice(v) == 2 * v.n + (IF "half" \in DOMAIN v THEN 1 ELSE 0)

\* C20: Min(m) passes exactly for the numbers >= m and Max(m) exactly for
\* the numbers <= m, MinLength(m) and MaxLength(m) exactly for the strings
\* of length >= m and <= m, the bound itself included; every other value,
\* one of the wrong type included, gets the rule's message
BoundsAreInclusive ==
  /\ Ran("Min") =>
       (trial.res.ok <=> typeIs(trial.arg, "num") /\ Twice(trial.arg) >= 2 * trial.fn.min)
  /\ Ran("Max") =>
       (trial.res.ok <=> typeIs(trial.arg, "num") /\ Twice(trial.arg) <= 2 * trial.fn.max)
  /\ Ran("MinLength") =>
       (trial.res.ok <=>
          typeIs(trial.arg, "str") /\ Len(trial.arg.s) >= trial.fn.minLength)
  /\ Ran("MaxLength") =>
       (trial.res.ok <=>
          typeIs(trial.arg, "str") /\ Len(trial.arg.s) <= trial.fn.maxLength)
  /\ (trial.done /\ trial.fn.k \in {"Min", "Max", "MinLength", "MaxLength"}
        /\ ~trial.res.ok) =>
       trial.res.message = trial.fn.message

\* Max(10) has passed for 10
BoundsAreInclusiveWitness ==
  /\ Ran("Max")
  /\ trial.fn = Max(10)
  /\ trial.arg = Num(10)
  /\ trial.res = Pass

\* the field's coercer was invoked by the last operation and returned a
\* failure
CoercerFailed(p) ==
  /\ Len(PhaseCalls(p, "coerce")) = 1
  /\ ~PhaseCalls(p, "coerce")[1].res.ok

\* the entries of the last operation's error list that name the field
ErrorsOf(p) == SelectSeq(last.errors, LAMBDA e : e.property = p)

\* C21: when a field's coercer fails, validate and parseInto record one
\* error entry for the field, with the coercer's message as its only
\* constraint and the value as it was before coercion; none of the field's
\* rules and transforms is invoked; after validate the field of the entity
\* holds what it held, and parseInto leaves the target as it was
CoercerFailureIsTheFieldsError ==
  RanFields =>
    \A p \in Participating :
      CoercerFailed(p) =>
        /\ ErrorsOf(p) = <<ValidationError(p, InputOf(p),
                                           <<PhaseCalls(p, "coerce")[1].res.message>>)>>
        /\ PhaseCalls(p, "coerce")[1].arg = InputOf(p)
        /\ PhaseCalls(p, "validate") = <<>>
        /\ PhaseCalls(p, "transform") = <<>>
        /\ last.op = "validate" => Get(target.fields, p) = Get(last.pre.fields, p)
        /\ last.op = "parseInto" => target = last.pre

\* validate on a PipelineDto whose n is "no": one error with the message of
\* Coerce.Number, and n is still "no"
CoercerFailureIsTheFieldsErrorWitness ==
  /\ last.op = "validate"
  /\ cls = "PipelineDto"
  /\ CoercerFailed("n")
  /\ last.errors = <<ValidationError("n", S(<<"n", "o">>), <<CoerceNumberOf.message>>)>>
  /\ Get(target.fields, "n") = S(<<"n", "o">>)

\* the staging area of the last parseInto as its loop over the properties
\* left it
StagedBy ==
  parseLoop(cls, 1, stageLoop(getAllowedKeys(cls), last.plain, last.order,
                              [staged |-> <<>>, errors |-> <<>>, log |-> <<>>])).staged

\* the last of the field's transforms that was invoked returned a failure
TransformFailed(p) ==
  /\ PhaseCalls(p, "transform") # <<>>
  /\ ~PhaseCalls(p, "transform")[Len(PhaseCalls(p, "transform"))].res.ok

FailuresOf(p) ==
  LET failed == SelectSeq(CallsOf(p), LAMBDA e : ~e.res.ok)
  IN [i \in 1..Len(failed) |-> failed[i].res.message]

\* C23: in the errors of one validate call, and in the per-field errors of
\* one parseInto call, no two entries name the same field; a field has an
\* entry exactly when its coercer, one of its rules or one of its
\* transforms failed, and the constraints of the entry are the messages of
\* that field's own calls and of no other field's
OneErrorEntryPerField ==
  RanFields =>
    /\ \A i, j \in 1..Len(last.errors) :
         last.errors[i].property = last.errors[j].property => i = j
    /\ ErrorProps \subseteq Participating
    /\ \A p \in Participating :
         /\ Len(ErrorsOf(p)) = IF FailuresOf(p) # <<>> THEN 1 ELSE 0
         /\ FailuresOf(p) # <<>> <=> CoercerFailed(p) \/ RuleRejected(p) \/ TransformFailed(p)
         /\ FailuresOf(p) # <<>> => ErrorsOf(p)[1].constraints = FailuresOf(p)

\* validate on a LabelDto without label and with code 5: the rule of label
\* and the second transform of code have failed, and there are two entries
OneErrorEntryPerFieldWitness ==
  /\ last.op = "validate"
  /\ cls = "LabelDto"
  /\ RuleRejected("label")
  /\ TransformFailed("code")
  /\ Len(last.errors) = 2
  /\ ErrorProps = {"label", "code"}

\* the last operation brought the field to its rules: the coercer did not
\* fail, and the field is not optional with its value absent
ReachedRules(p) ==
  /\ ~CoercerFailed(p)
  /\ ~(getFlag(cls, META_OPT_KEY, p) /\ isNil(SeenByRules(p)))

UnknownFor(schema, allow) ==
  (DOMAIN trial.arg.f) \ (getAllowedKeys(schema.ctor) \cup allow)

\* res is the failure whose message lists exactly the keys, each once, in
\* ascending order, after "unknown properties: "
ListsSorted(res, keys) ==
  /\ ~res.ok
  /\ res.message.text = "unknown properties: "
  /\ Len(res.message.parts) = Cardinality(keys)
  /\ {res.message.parts[i].text : i \in 1..Len(res.message.parts)} = keys
  /\ \A i, j \in 1..Len(res.message.parts) :
       i < j =>
         (CHOOSE n \in 1..Len(KeyOrder) : KeyOrder[n] = res.message.parts[i].text)
           < (CHOOSE n \in 1..Len(KeyOrder) : KeyOrder[n] = res.message.parts[j].text)

\* the fresh instance of the selected variant after the keys of the value
\* have been assigned
VariantInstance == assignKnown(getAllowedKeys(Variant.ctor), trial.arg)

\* C25: a class schema given to a combinator refuses a table with a key
\* that the class neither declares nor finds in the allow-list, with the
\* message "unknown properties: " followed by every such key in ascending
\* order, whatever the pipeline of the class would say of the declared keys;
\* a table without such a key is judged by the pipeline of the class on an
\* instance that holds the declared keys of the table and no other, so an
\* allow-listed key that the class does not declare is accepted and is not
\* on the instance
SchemaRefusesUnknownKeys ==
  /\ (Applied("DiscriminatedUnion") /\ TagSelects) =>
       LET unknown == UnknownFor(Variant, {trial.fn.discriminator})
           declared == getAllowedKeys(Variant.ctor)
       IN /\ unknown # {} => ListsSorted(trial.res, unknown)
          /\ unknown = {} =>
               /\ DOMAIN VariantInstance = (DOMAIN trial.arg.f) \cap declared
               /\ \A k \in DOMAIN VariantInstance : VariantInstance[k] = trial.arg.f[k]
               /\ trial.fn.discriminator \notin declared =>
                    trial.fn.discriminator \notin DOMAIN VariantInstance
               /\ trial.res.ok <=> Len(validate(Variant.ctor, VariantInstance).errors) = 0
  /\ (Applied("Union") /\ typeIs(trial.arg, "tab")) =>
       \A i \in 1..Len(trial.tried) :
         (trial.fn.schemas[i].kind = "ctor" /\ UnknownFor(trial.fn.schemas[i], {}) # {}) =>
           ListsSorted(trial.tried[i], UnknownFor(trial.fn.schemas[i], {}))

\* DiscriminatedUnion("tag", {a: ADto, b: BDto}) has refused a table tagged
\* "a" for two keys that ADto does not declare, and the value of its key a
\* is one that ADto's own rules refuse
SchemaRefusesUnknownKeysWitness ==
  /\ Applied("DiscriminatedUnion")
  /\ trial.fn.discriminator = "tag"
  /\ TagSelects
  /\ Get(trial.arg.f, "tag") = S(<<"a">>)
  /\ Get(trial.arg.f, "a") = Num(5)
  /\ UnknownFor(Variant, {"tag"}) = {"extra", "x"}
  /\ trial.res = unknownProperties(<<"extra", "x">>)

\* the number of tables that table id holds as values
TableSlots(id) == Cardinality({key \in {"a", "b"} : typeIs(heap.tab[id].e[key], "tab")})

RECURSIVE SumSlots(_, _)
SumSlots(entered, i) ==
  IF i > Len(entered) THEN 0 ELSE TableSlots(entered[i]) + SumSlots(entered, i + 1)

\* C26: deepFreeze returns on every heap, cyclic or not, and its traversal
\* enters the loop of no table twice: the tables entered are the table given
\* first and then tables reachable from it, each once, all of them when
\* table.freeze did not raise, and the calls made are one for the table
\* given and one for each table-valued slot of the tables entered
DeepFreezeEntersEachTableOnce ==
  (Ran("Readonly") /\ typeIs(trial.arg, "tab")) =>
    LET e == trial.walk.entered
        set == {e[i] : i \in 1..Len(e)}
    IN /\ Len(e) >= 1
       /\ e[1] = trial.arg.id
       /\ \A i, j \in 1..Len(e) : i # j => e[i] # e[j]
       /\ set \subseteq Reach(heap, {trial.arg.id})
       /\ Len(e) + trial.walk.skipped <= 1 + Len(e) * Len(HeapKeys)
       /\ ~trial.walk.raised =>
            /\ set = Reach(heap, {trial.arg.id})
            /\ Len(e) + trial.walk.skipped = 1 + SumSlots(e, 1)

\* table 1 holds itself and table 2, table 2 holds table 1, and Readonly on
\* table 1 has returned it after entering 1 and 2 once each and leaving
\* two calls at the visited set
DeepFreezeEntersEachTableOnceWitness ==
  /\ Ran("Readonly")
  /\ trial.arg = Ref(1)
  /\ trial.res = Ok(Ref(1))
  /\ {heap.tab[1].e[key] : key \in {"a", "b"}} = {Ref(1), Ref(2)}
  /\ \E key \in {"a", "b"} : heap.tab[2].e[key] = Ref(1)
  /\ \A key \in {"a", "b"} : heap.tab[2].e[key] \in {Ref(1), Num(1)}
  /\ trial.walk.entered = <<1, 2>>
  /\ trial.walk.skipped = 2
  /\ heap.tab[1].frozen /\ heap.tab[2].frozen

\* the tables that can be reached from the tables of set through values
\* and through keys
RECURSIVE ReachAll(_, _)
ReachAll(h, set) ==
  LET next == set \cup {id \in TableIds :
                 \E holder \in set :
                   \/ id \in h.tab[holder].keys
                   \/ \E key \in {"a", "b"} : h.tab[holder].e[key] = Ref(id)}
  IN IF next = set THEN set ELSE ReachAll(h, next)

\* IsReadonly is asked about the table that Coerce.Readonly has just returned
CheckedAfterFreeze ==
  /\ trial.fn.k = "Readonly"
  /\ typeIs(trial.arg, "tab")
  /\ trial.res = Ok(trial.arg)
  /\ trial'.fn.k = "IsReadonly"
  /\ trial'.arg = trial.arg

\* C27: IsReadonly accepts every table that Coerce.Readonly has just
\* returned
ReadonlyResultIsAccepted ==
  [][CheckedAfterFreeze => trial'.res = Pass]_vars

\* what the code does: IsReadonly accepts the table that Coerce.Readonly
\* has just returned exactly when every table reachable from it through
\* values and keys is frozen, which is so whenever no table reachable
\* through values has a table among its keys
ReadonlyResultAcceptedWithoutTableKeys ==
  [][CheckedAfterFreeze =>
       /\ trial'.res = Pass <=>
            \A id \in ReachAll(heap, {trial.arg.id}) : heap.tab[id].frozen
       /\ (\A id \in Reach(heap, {trial.arg.id}) : heap.tab[id].keys = {}) =>
            trial'.res = Pass
       /\ trial'.res \in {Pass, Fail(IsReadonlyOf.message)}]_vars

\* IsReadonly has refused table 1, which is frozen and has the unfrozen
\* table 2 among its keys
ReadonlyResultRefusedForKey ==
  /\ Ran("IsReadonly")
  /\ trial.arg = Ref(1)
  /\ trial.res = Fail(IsReadonlyOf.message)
  /\ heap.tab[1].frozen
  /\ heap.tab[1].keys = {2}
  /\ ~heap.tab[2].frozen
  /\ \A key \in {"a", "b"} : heap.tab[1].e[key] = Num(1)

\* C28: every value that IsRecord accepts is a value that IsMap accepts,
\* the table with no entries included
RecordsAreMaps ==
  (Ran("IsRecord") /\ trial.res.ok) => IsMapRule(IsMap, trial.arg).ok

\* what the code does: a value that IsRecord accepts is a table whose keys
\* are all strings, and IsMap accepts it exactly when it has an entry; the
\* table with no entries passes IsRecord and fails IsMap with its message
NonEmptyRecordsAreMaps ==
  /\ (Ran("IsRecord") /\ trial.res.ok) =>
       /\ typeIs(trial.arg, "tab")
       /\ \A k \in DOMAIN trial.arg.e : typeIs(k, "str")
       /\ IsMapRule(IsMap, trial.arg).ok <=> DOMAIN trial.arg.e # {}
  /\ (Ran("IsRecord") /\ trial.arg = Table(<<>>)) => trial.res = Pass
  /\ (Ran("IsMap") /\ trial.arg = Table(<<>>)) => trial.res = Fail(Msg("must be a map"))
  /\ (Ran("IsMap") /\ trial.res.ok) =>
       (IsRecordRule(IsRecord, trial.arg).ok <=>
          \A k \in DOMAIN trial.arg.e : typeIs(k, "str"))

\* IsMap has refused the table with no entries
EmptyTableIsNoMap ==
  /\ Ran("IsMap")
  /\ trial.arg = Table(<<>>)
  /\ ~trial.res.ok
  /\ IsRecordRule(IsRecord, trial.arg).ok

\* the last operation was parseInto on a target as the constructor leaves
\* it, with a plain bag of declared keys only
ParsedFresh ==
  /\ last.op = "parseInto"
  /\ last.pre.fields = NewInstance
  /\ UnknownOf(last.plain) = {}

\* validate on a fresh instance to which the keys of the last plain bag have
\* been assigned
ValidateOfPlain == validate(cls, commit(NewInstance, last.plain))

ParseIntoFailsAsValidate ==
  /\ ParsedFresh
  /\ Len(last.errors) >= 2
  /\ last.errors = ValidateOfPlain.errors

\* C30: after a successful parseInto every participating field of target
\* holds what the pipeline made of plain's value for it, whatever target
\* held before; a field whose pipeline result is absent is absent on target
ParseSuccessReflectsPlain ==
  (last.op = "parseInto" /\ last.ok) =>
    \A p \in Participating : Get(target.fields, p) = Get(StagedBy, p)

\* what the code does: after a successful parseInto a participating field
\* whose pipeline result is present holds that result, and a field whose
\* result is absent holds what target held before the call
ParseSuccessKeepsFieldsWithoutResult ==
  (last.op = "parseInto" /\ last.ok) =>
    \A p \in Participating :
      Get(target.fields, p) =
        IF isNil(Get(StagedBy, p)) THEN Get(last.pre.fields, p) ELSE Get(StagedBy, p)

\* parseInto has succeeded with a plain bag that lacks an optional field,
\* and target still holds for that field the value it held before the call
ParseSuccessLeftStaleField ==
  /\ last.op = "parseInto"
  /\ last.ok
  /\ \E p \in Participating :
       /\ getFlag(cls, META_OPT_KEY, p)
       /\ p \notin DOMAIN last.plain
       /\ isNil(Get(StagedBy, p))
       /\ ~isNil(Get(last.pre.fields, p))
       /\ Get(target.fields, p) = Get(last.pre.fields, p)

====
